---- MODULE Spec2Model ----
(***************************************************************************)
(* A model of the pinv storage engine (src/src/db.rs) and of its key codec *)
(* (src/src/b64.rs).  Strings are sequences of one-character strings, so   *)
(* that the validators, the codec and the literal formatting are computed  *)
(* character by character as the code computes them.  The database is the  *)
(* key registry (table KEYS) and one table per catagory.                   *)
(***************************************************************************)
EXTENDS Integers, Sequences, FiniteSets, TLC

VARIABLES
    keys,     \* the KEYS table: key -> catagory id
    tables,   \* the catagory tables: id -> [cols, rows]
    last      \* the last completed store operation and its result

vars == <<keys, tables, last>>

(***************************************************************************)
(* Characters                                                              *)
(***************************************************************************)
Digits == {"0", "1", "2", "3", "4", "5", "6", "7", "8", "9"}

Upper == {"A", "B", "C", "D", "E", "F", "G", "H", "I", "J", "K", "L", "M",
          "N", "O", "P", "Q", "R", "S", "T", "U", "V", "W", "X", "Y", "Z"}

Lower == {"a", "b", "c", "d", "e", "f", "g", "h", "i", "j", "k", "l", "m",
          "n", "o", "p", "q", "r", "s", "t", "u", "v", "w", "x", "y", "z"}

Whitespace == {" ", "\t", "\n", "\r"}

\* the 64 numerals of the key codec, value = position - 1
TABLE ==
    <<"0", "1", "2", "3", "4", "5", "6", "7", "8", "9",
      "A", "B", "C", "D", "E", "F", "G", "H", "I", "J", "K", "L", "M",
      "N", "O", "P", "Q", "R", "S", "T", "U", "V", "W", "X", "Y", "Z",
      "a", "b", "c", "d", "e", "f", "g", "h", "i", "j", "k", "l", "m",
      "n", "o", "p", "q", "r", "s", "t", "u", "v", "w", "x", "y", "z",
      "+", "-">>

Reverse(s) == [i \in 1..Len(s) |-> s[Len(s) + 1 - i]]

\* str::trim: whitespace removed at both ends
RECURSIVE TrimStart(_)
TrimStart(s) ==
    IF s # <<>> /\ s[1] \in Whitespace THEN TrimStart(Tail(s)) ELSE s

Trim(s) == Reverse(TrimStart(Reverse(TrimStart(s))))

(***************************************************************************)
(* The key codec (b64.rs).  A panic is a result of its own.                *)
(***************************************************************************)
\* the loop of from_u64: num, the modulus i, the string built so far
RECURSIVE from_u64_loop(_, _, _)
from_u64_loop(num, i, out) ==
    IF num = 0 THEN [panic |-> FALSE, s |-> Reverse(out)]
    ELSE LET j == num % i IN
         IF j >= 64 THEN [panic |-> TRUE, s |-> <<>>]
         ELSE from_u64_loop(num \div i, i * 64, Append(out, TABLE[j + 1]))

from_u64(num) ==
    IF num = 0 THEN [panic |-> FALSE, s |-> <<"0">>]
    ELSE from_u64_loop(num, 64, <<>>)

\* TABLE.iter().position(|x| x == &digit)
Position(digit) ==
    IF \E p \in 1..64 : TABLE[p] = digit
    THEN (CHOOSE p \in 1..64 : TABLE[p] = digit) - 1
    ELSE -1

\* 64^k, the value of pow after k turns of the loop of to_u64
RECURSIVE Pow64(_)
Pow64(k) == IF k <= 0 THEN 1 ELSE 64 * Pow64(k - 1)

\* the loop of to_u64 over the reversed, trimmed string: k digits are read,
\* pow is 64^k and out is below it.  pow and out are u64: up to the tenth
\* digit nothing overflows; the eleventh digit times 2^60 overflows from 16
\* on, and pow *= 64 overflows after it whatever the digit.  A build with
\* overflow checks panics there, one without wraps: pow is 0 from then on.
RECURSIVE to_u64_loop(_, _, _, _)
to_u64_loop(rev, k, out, overflow_checks) ==
    IF rev = <<>> THEN [ok |-> TRUE, panic |-> FALSE, v |-> out]
    ELSE IF Position(rev[1]) < 0 THEN [ok |-> FALSE, panic |-> FALSE, v |-> 0]
    ELSE IF k >= 11 THEN to_u64_loop(Tail(rev), k + 1, out, overflow_checks)
    ELSE IF k = 10 /\ overflow_checks THEN [ok |-> FALSE, panic |-> TRUE, v |-> 0]
    ELSE IF k = 10
         THEN to_u64_loop(Tail(rev), 11,
                IF Position(rev[1]) % 16 = 0 THEN out
                ELSE out + (Position(rev[1]) % 16) * Pow64(10),
                overflow_checks)
    ELSE to_u64_loop(Tail(rev), k + 1,
            IF Position(rev[1]) = 0 THEN out
            ELSE out + Position(rev[1]) * Pow64(k),
            overflow_checks)

\* b64::to_u64 as one build runs it
to_u64_build(string, overflow_checks) ==
    to_u64_loop(Reverse(Trim(string)), 0, 0, overflow_checks)

\* b64::to_u64 on the texts the store decodes: a key of at most ten symbols,
\* on which the builds agree
to_u64(string) == to_u64_build(string, FALSE)

(***************************************************************************)
(* The validators (Db::check_id_string, Db::check_value_string)            *)
(***************************************************************************)
\* the characters VALID_RE excludes after the first one
IdForbidden ==
    Lower \cup Whitespace \cup
    {"+", "\\", "-", "*", "/", "%", "&", "|", "^", "=", ">", "<", ";"}

\* check_id_string without the class of the first character
check_id_string_any_first(id) ==
    /\ Len(id) >= 1
    /\ \A i \in 2..Len(id) : id[i] \notin IdForbidden

check_id_string(id) ==
    /\ Len(id) >= 1
    /\ id[1] \in Upper
    /\ \A i \in 2..Len(id) : id[i] \notin IdForbidden

\* number of leading digits of s
RECURSIVE DigitRun(_)
DigitRun(s) ==
    IF s # <<>> /\ s[1] \in Digits THEN 1 + DigitRun(Tail(s)) ELSE 0

Drop(s, n) == SubSeq(s, n + 1, Len(s))

\* VALID_TEXT_PREP_RE.replace_all(value, ""): every \' removed
RECURSIVE TextPrep(_)
TextPrep(s) ==
    IF s = <<>> THEN <<>>
    ELSE IF Len(s) >= 2 /\ s[1] = "\\" /\ s[2] = "'" THEN TextPrep(Drop(s, 2))
    ELSE <<s[1]>> \o TextPrep(Tail(s))

\* VALID_TEXT_RE: \A'[^']*'\z
ValidText(s) ==
    /\ Len(s) >= 2
    /\ s[1] = "'"
    /\ s[Len(s)] = "'"
    /\ \A i \in 2..(Len(s) - 1) : s[i] # "'"

\* VALID_INTEGER_PREP_RE.replace_all(value, ""): every e\d+ removed
RECURSIVE IntegerPrep(_)
IntegerPrep(s) ==
    IF s = <<>> THEN <<>>
    ELSE IF s[1] = "e" /\ DigitRun(Tail(s)) >= 1
         THEN IntegerPrep(Drop(s, 1 + DigitRun(Tail(s))))
    ELSE <<s[1]>> \o IntegerPrep(Tail(s))

\* VALID_REAL_PREP_RE.replace_all(value, ""): every \.\d+ | e\d+ | e\-\d removed
RECURSIVE RealPrep(_)
RealPrep(s) ==
    IF s = <<>> THEN <<>>
    ELSE IF s[1] \in {".", "e"} /\ DigitRun(Tail(s)) >= 1
         THEN RealPrep(Drop(s, 1 + DigitRun(Tail(s))))
    ELSE IF Len(s) >= 3 /\ s[1] = "e" /\ s[2] = "-" /\ s[3] \in Digits
         THEN RealPrep(Drop(s, 3))
    ELSE <<s[1]>> \o RealPrep(Tail(s))

\* number of leading dashes of s
RECURSIVE DashRun(_)
DashRun(s) ==
    IF s # <<>> /\ s[1] = "-" THEN 1 + DashRun(Tail(s)) ELSE 0

\* VALID_INTEGER_RE: \A\-*\d+\z
ValidInteger(s) ==
    LET rest == Drop(s, DashRun(s)) IN
    /\ Len(rest) >= 1
    /\ DigitRun(rest) = Len(rest)

\* "" when the value is valid for the datatype, else the error
check_value_string(value, datatype) ==
    CASE datatype = "TEXT" ->
            IF ValidText(TextPrep(value)) THEN "" ELSE "InvalidText"
      [] datatype = "INTEGER" ->
            IF ValidInteger(IntegerPrep(value)) THEN "" ELSE "InvalidInteger"
      [] datatype = "REAL" ->
            IF ValidInteger(RealPrep(value)) THEN "" ELSE "InvalidReal"
      [] OTHER -> "UnsupportedType"

(***************************************************************************)
(* SQL values, as the engine stores them and as rusqlite hands them back   *)
(* (ValueRef).  A REAL is m * 10^e with m not a multiple of 10.            *)
(***************************************************************************)
SqlNull == [t |-> "NULL", i |-> 0, m |-> 0, e |-> 0, s |-> <<>>]

SqlInteger(n) == [t |-> "INTEGER", i |-> n, m |-> 0, e |-> 0, s |-> <<>>]

SqlText(str) == [t |-> "TEXT", i |-> 0, m |-> 0, e |-> 0, s |-> str]

RECURSIVE SqlReal(_, _)
SqlReal(mant, exp) ==
    IF mant = 0 THEN [t |-> "REAL", i |-> 0, m |-> 0, e |-> 0, s |-> <<>>]
    ELSE IF mant % 10 = 0 THEN SqlReal(mant \div 10, exp + 1)
    ELSE [t |-> "REAL", i |-> 0, m |-> mant, e |-> exp, s |-> <<>>]

RECURSIVE Pow10(_)
Pow10(n) == IF n <= 0 THEN 1 ELSE 10 * Pow10(n - 1)

\* the value of a run of decimal digits
RECURSIVE DigitsToNat(_, _)
DigitsToNat(s, acc) ==
    IF s = <<>> THEN acc
    ELSE DigitsToNat(Tail(s), 10 * acc + Position(s[1]))

\* the decimal digits of a natural number
RECURSIVE NatToDigits(_)
NatToDigits(n) ==
    IF n < 10 THEN <<TABLE[n + 1]>>
    ELSE NatToDigits(n \div 10) \o <<TABLE[(n % 10) + 1]>>

\* format!("{}", i) of an integer
IntToString(n) == IF n < 0 THEN <<"-">> \o NatToDigits(-n) ELSE NatToDigits(n)

\* format!("{:e}", f) of m * 10^e: one digit, the others after a point, the exponent
RealToString(mant, exp) ==
    LET d == NatToDigits(IF mant < 0 THEN -mant ELSE mant) IN
    (IF mant < 0 THEN <<"-">> ELSE <<>>)
    \o <<d[1]>>
    \o (IF Len(d) > 1 THEN <<".">> \o Tail(d) ELSE <<>>)
    \o <<"e">> \o IntToString(exp + Len(d) - 1)

\* Db::sqlval_to_string
sqlval_to_string(value) ==
    CASE value.t = "NULL" -> <<"N", "U", "L", "L">>
      [] value.t = "INTEGER" -> IntToString(value.i)
      [] value.t = "REAL" -> RealToString(value.m, value.e)
      [] value.t = "TEXT" -> value.s
      [] OTHER -> <<"B", "L", "O", "B">>

(***************************************************************************)
(* The engine's reading of the literals the code concatenates into SQL.    *)
(***************************************************************************)
\* what the engine makes of a literal: whether it parses, its value, and the
\* text left after it
NoLiteral == [ok |-> FALSE, val |-> SqlNull, rest |-> <<>>]

IsLiteral(val) == [ok |-> TRUE, val |-> val, rest |-> <<>>]

\* the exponent of a numeric literal, e [-|+] digits, or nothing; then the
\* end.  n2 is the number of fraction digits, -1 without a fraction.
NumExponent(sgn, mant, n2, r2) ==
    IF r2 = <<>>
    THEN IsLiteral(IF n2 < 0 THEN SqlInteger(sgn * mant) ELSE SqlReal(sgn * mant, -n2))
    ELSE IF r2[1] # "e" THEN NoLiteral
    ELSE LET r4 == IF Len(r2) >= 2 /\ r2[2] \in {"-", "+"} THEN Drop(r2, 2)
                   ELSE Tail(r2)
         IN IF r4 = <<>> \/ DigitRun(r4) # Len(r4) THEN NoLiteral
            ELSE IsLiteral(SqlReal(sgn * mant,
                    (IF r2[2] = "-" THEN -DigitsToNat(r4, 0) ELSE DigitsToNat(r4, 0))
                    - (IF n2 < 0 THEN 0 ELSE n2)))

\* the fraction of a numeric literal, . digits, or nothing
NumFraction(sgn, int, r1) ==
    IF r1 # <<>> /\ r1[1] = "."
    THEN NumExponent(sgn, DigitsToNat(int \o SubSeq(r1, 2, 1 + DigitRun(Tail(r1))), 0),
                     DigitRun(Tail(r1)), Drop(r1, 1 + DigitRun(Tail(r1))))
    ELSE NumExponent(sgn, DigitsToNat(int, 0), -1, r1)

\* the digits of a numeric literal after its sign
NumBody(sgn, body) ==
    IF DigitRun(body) = 0 THEN NoLiteral
    ELSE NumFraction(sgn, SubSeq(body, 1, DigitRun(body)), Drop(body, DigitRun(body)))

\* a numeric literal: [-] digits [. digits] [e [-|+] digits]; anything else is
\* a syntax error (two dashes open a comment, a letter after a number is an
\* illegal token)
NumLiteral(lit) ==
    IF lit # <<>> /\ lit[1] = "-" THEN NumBody(-1, Tail(lit)) ELSE NumBody(1, lit)

\* index of the quote that closes a string literal opened at lit[1]; a doubled
\* quote stands for one quote and a backslash is an ordinary character
RECURSIVE StringEnd(_, _)
StringEnd(lit, i) ==
    IF i > Len(lit) THEN 0
    ELSE IF lit[i] # "'" THEN StringEnd(lit, i + 1)
    ELSE IF i < Len(lit) /\ lit[i + 1] = "'" THEN StringEnd(lit, i + 2)
    ELSE i

\* the text between the quotes, doubled quotes undone
RECURSIVE Unquote(_)
Unquote(s) ==
    IF s = <<>> THEN <<>>
    ELSE IF Len(s) >= 2 /\ s[1] = "'" /\ s[2] = "'"
         THEN <<"'">> \o Unquote(Drop(s, 2))
    ELSE <<s[1]>> \o Unquote(Tail(s))

\* a quoted literal: the string it opens, and the text left after the string
\* closes, which the engine reads as SQL (empty for a well-formed literal)
TextLiteral(lit) ==
    LET end == StringEnd(lit, 2) IN
    IF end = 0 THEN NoLiteral
    ELSE [ok |-> TRUE,
          val |-> SqlText(Unquote(SubSeq(lit, 2, end - 1))),
          rest |-> Drop(lit, end)]

\* type affinity of a column on a stored value
Affinity(value, decl) ==
    CASE decl = "INTEGER" /\ value.t = "REAL" /\ value.e >= 0 ->
            SqlInteger(value.m * Pow10(value.e))
      [] decl = "REAL" /\ value.t = "INTEGER" -> SqlReal(value.i, 0)
      [] OTHER -> value

(***************************************************************************)
(* Names the code writes into its SQL                                      *)
(***************************************************************************)
KEY == <<"K", "E", "Y">>
LOCATION == <<"L", "O", "C", "A", "T", "I", "O", "N">>
QUANTITY == <<"Q", "U", "A", "N", "T", "I", "T", "Y">>
CREATED == <<"C", "R", "E", "A", "T", "E", "D">>
MODIFIED == <<"M", "O", "D", "I", "F", "I", "E", "D">>
KEYS == <<"K", "E", "Y", "S">>
CATAGORY == <<"C", "A", "T", "A", "G", "O", "R", "Y">>

\* str::to_uppercase on the model's characters
ToUpper(s) ==
    [i \in 1..Len(s) |->
        IF s[i] \in Lower THEN TABLE[Position(s[i]) - 25] ELSE s[i]]

\* CatagoryField::sql_type
sql_type(field) ==
    CASE field.datatype = "NULL" -> "NULL"
      [] field.datatype = "INTEGER" -> "INTEGER"
      [] field.datatype = "REAL" -> "REAL"
      [] field.datatype = "TEXT" -> "TEXT"
      [] OTHER -> "BLOB"

\* the columns every catagory table starts with (the CREATE TABLE text)
FixedCols ==
    <<[id |-> KEY, decl |-> "INTEGER"],
      [id |-> LOCATION, decl |-> "TEXT"],
      [id |-> QUANTITY, decl |-> "INTEGER"],
      [id |-> CREATED, decl |-> "INTEGER"],
      [id |-> MODIFIED, decl |-> "INTEGER"]>>

\* the columns of the key registry
KeysCols ==
    <<[id |-> KEY, decl |-> "INTEGER"], [id |-> CATAGORY, decl |-> "TEXT"]>>

\* whether the engine knows a table of that name, and its columns
TableExists(tbls, name) == name = KEYS \/ name \in DOMAIN tbls

TableCols(tbls, name) == IF name = KEYS THEN KeysCols ELSE tbls[name].cols

\* position of the first element of seq that is x, 0 when there is none
IndexOf(seq, x) ==
    IF \E i \in 1..Len(seq) : seq[i] = x
    THEN CHOOSE i \in 1..Len(seq) : seq[i] = x /\ \A j \in 1..(i - 1) : seq[j] # x
    ELSE 0

\* position of the first column with that id, 0 when there is none
ColIndex(cols, id) == IndexOf([i \in 1..Len(cols) |-> cols[i].id], id)

(***************************************************************************)
(* The engine's execution of the statements the code builds                *)
(***************************************************************************)
\* str::split: the pieces of s between the occurrences of sep, found from
\* the left and not overlapping; piece is the piece being read
RECURSIVE SplitLoop(_, _, _)
SplitLoop(s, sep, piece) ==
    IF s = <<>> THEN <<piece>>
    ELSE IF Len(s) >= Len(sep) /\ SubSeq(s, 1, Len(sep)) = sep
         THEN <<piece>> \o SplitLoop(Drop(s, Len(sep)), sep, <<>>)
    ELSE SplitLoop(Tail(s), sep, Append(piece, s[1]))

Split(s, sep) == SplitLoop(s, sep, <<>>)

\* number of leading letters, digits, underscores and dollars of s
RECURSIVE IdentTail(_)
IdentTail(s) ==
    IF s # <<>> /\ s[1] \in Upper \cup Lower \cup Digits \cup {"_", "$"}
    THEN 1 + IdentTail(Tail(s)) ELSE 0

\* length of the name s starts with
IdentRun(s) ==
    IF s # <<>> /\ s[1] \in Upper \cup Lower \cup {"_"}
    THEN 1 + IdentTail(Tail(s)) ELSE 0

\* the keyword sql_type writes, as text
TypeWord(decl) ==
    CASE decl = "INTEGER" -> <<"I", "N", "T", "E", "G", "E", "R">>
      [] decl = "REAL" -> <<"R", "E", "A", "L">>
      [] decl = "TEXT" -> <<"T", "E", "X", "T">>
      [] OTHER -> <<"B", "L", "O", "B">>

\* the type a column is declared with; the word NULL after a column name is
\* a constraint, not a type
DeclaredType(field) == IF sql_type(field) = "NULL" THEN "" ELSE sql_type(field)

\* the engine's reading of "id type", the text add_catagory writes for one
\* field, given the pieces of id between its commas: every piece before the
\* last is a column of its own without a type, the last one has the type; an
\* empty last piece leaves the type word as the name of a column
ColumnDefs(field, pieces) ==
    [j \in 1..Len(pieces) |->
        IF j < Len(pieces) THEN [id |-> pieces[j], decl |-> ""]
        ELSE IF pieces[j] = <<>> THEN [id |-> TypeWord(sql_type(field)), decl |-> ""]
        ELSE [id |-> pieces[j], decl |-> DeclaredType(field)]]

\* whether the engine can read the text of one field: each piece a name, an
\* empty one only at the end and not before the keyword NULL
ColumnDefsOk(field, pieces) ==
    \A j \in 1..Len(pieces) :
        IF pieces[j] = <<>> THEN j = Len(pieces) /\ sql_type(field) # "NULL"
        ELSE IdentRun(pieces[j]) = Len(pieces[j])

\* the columns of CREATE TABLE id (<fixed columns>, <user columns>)
RECURSIVE UserCols(_)
UserCols(fields) ==
    IF fields = <<>> THEN <<>>
    ELSE ColumnDefs(fields[1], Split(fields[1].id, <<",">>)) \o UserCols(Tail(fields))

CreateCols(fields) == FixedCols \o UserCols(fields)

\* the columns once they are read; two columns of one name are an error
SqlCreateTableCols(tbls, id, cols) ==
    IF \E i, j \in 1..Len(cols) : i # j /\ cols[i].id = cols[j].id
    THEN [ok |-> FALSE, tables |-> tbls]
    ELSE [ok |-> TRUE,
          tables |-> [c \in DOMAIN tbls \cup {id} |->
                        IF c = id THEN [cols |-> cols, rows |-> {}]
                        ELSE tbls[c]]]

\* CREATE TABLE: a dangling comma when there is no user column, and a field
\* text the engine cannot read, are errors
SqlCreateTable(tbls, id, fields) ==
    IF \/ fields = <<>>
       \/ TableExists(tbls, id)
       \/ \E i \in 1..Len(fields) :
            ~ColumnDefsOk(fields[i], Split(fields[i].id, <<",">>))
    THEN [ok |-> FALSE, tables |-> tbls]
    ELSE SqlCreateTableCols(tbls, id, CreateCols(fields))

\* one literal of a statement: quoted text or a number
Literal(lit) ==
    IF lit # <<>> /\ lit[1] = "'" THEN TextLiteral(lit) ELSE NumLiteral(lit)

\* the row an INSERT builds: of two entries for one column the first counts,
\* a column without an entry is NULL
InsertRow(cols, ids, parsed) ==
    [j \in 1..Len(cols) |->
        IF IndexOf(ids, cols[j].id) = 0 THEN SqlNull
        ELSE Affinity(parsed[IndexOf(ids, cols[j].id)].val, cols[j].decl)]

\* the constraints on a new row: the fixed columns are NOT NULL, KEY is the
\* row id, an integer no other row of the table has
SqlInsertRow(tbls, cat, row) ==
    IF \/ \E j \in 1..Len(FixedCols) : row[j].t = "NULL"
       \/ row[1].t # "INTEGER"
       \/ \E r \in tbls[cat].rows : r[1] = row[1]
    THEN [ok |-> FALSE, tables |-> tbls]
    ELSE [ok |-> TRUE, tables |-> [tbls EXCEPT ![cat].rows = @ \cup {row}]]

\* the INSERT once its literals are read: text left over after a string
\* literal closes early runs into the VALUES list and the statement does not
\* parse; every column named must exist
SqlInsertParsed(tbls, cat, ids, parsed) ==
    IF \/ \E i \in 1..Len(parsed) : ~parsed[i].ok \/ parsed[i].rest # <<>>
       \/ \E i \in 1..Len(ids) : ColIndex(tbls[cat].cols, ids[i]) = 0
    THEN [ok |-> FALSE, tables |-> tbls]
    ELSE SqlInsertRow(tbls, cat, InsertRow(tbls[cat].cols, ids, parsed))

\* INSERT INTO cat (ids) VALUES (lits)
SqlInsert(tbls, cat, ids, lits) ==
    IF cat \notin DOMAIN tbls THEN [ok |-> FALSE, tables |-> tbls]
    ELSE SqlInsertParsed(tbls, cat, ids, [i \in 1..Len(lits) |-> Literal(lits[i])])

\* the value of the assignment ",ID=digits--..." once its name is read
UpdateTailValue(id, r1) ==
    LET n == IF r1 # <<>> /\ r1[1] = "=" THEN DigitRun(Tail(r1)) ELSE 0 IN
    IF n >= 1 /\ Len(r1) >= n + 3 /\ r1[n + 2] = "-" /\ r1[n + 3] = "-"
    THEN [ok |-> TRUE, id |-> id,
          val |-> SqlInteger(DigitsToNat(SubSeq(r1, 2, 1 + n), 0))]
    ELSE [ok |-> FALSE, id |-> <<>>, val |-> SqlNull]

\* number of leading capital letters of s
RECURSIVE UpperRun(_)
UpperRun(s) ==
    IF s # <<>> /\ s[1] \in Upper THEN 1 + UpperRun(Tail(s)) ELSE 0

\* the SQL text ",ID=digits--..." left over after a string literal closed
\* early inside a SET list: one more assignment, then a comment to the end
UpdateTail(rest) ==
    IF rest = <<>> \/ rest[1] # "," \/ UpperRun(Tail(rest)) = 0
    THEN [ok |-> FALSE, id |-> <<>>, val |-> SqlNull]
    ELSE UpdateTailValue(SubSeq(rest, 2, 1 + UpperRun(Tail(rest))),
                         Drop(rest, 1 + UpperRun(Tail(rest))))

\* the end of a SET list at a string literal that closed early
SetListCut(acc, a, tail) ==
    IF tail.ok
    THEN [ok |-> TRUE, cut |-> TRUE,
          assigns |-> acc \o <<a, [id |-> tail.id, val |-> tail.val]>>]
    ELSE [ok |-> FALSE, cut |-> FALSE, assigns |-> <<>>]

\* the SET list as the engine reads it: the assignments in order, whether the
\* statement parses, and whether a comment swallowed its WHERE clause
RECURSIVE SetList(_, _)
\* one assignment of the SET list, its literal l read
SetListItem(sets, acc, l) ==
    IF ~l.ok THEN [ok |-> FALSE, cut |-> FALSE, assigns |-> <<>>]
    ELSE IF l.rest = <<>>
    THEN SetList(Tail(sets), Append(acc, [id |-> sets[1].id, val |-> l.val]))
    ELSE SetListCut(acc, [id |-> sets[1].id, val |-> l.val], UpdateTail(l.rest))

SetList(sets, acc) ==
    IF sets = <<>> THEN [ok |-> TRUE, cut |-> FALSE, assigns |-> acc]
    ELSE SetListItem(sets, acc, Literal(sets[1].lit))

\* a row after the assignments, applied in order: the rightmost one of a
\* column counts
RECURSIVE Assign(_, _, _)
Assign(row, cols, assigns) ==
    IF assigns = <<>> THEN row
    ELSE LET c == ColIndex(cols, assigns[1].id) IN
         Assign([row EXCEPT ![c] = Affinity(assigns[1].val, cols[c].decl)],
                cols, Tail(assigns))

\* the rows an UPDATE hits, replaced by what it makes of them; KEY stays an
\* integer no other row of the table has
SqlUpdateRows(tbls, cat, hit, new) ==
    IF \/ \E r \in hit : new[r][1].t # "INTEGER"
       \/ \E r \in hit : \E q \in tbls[cat].rows \ hit : new[r][1] = q[1]
       \/ \E r, q \in hit : r # q /\ new[r][1] = new[q][1]
    THEN [ok |-> FALSE, tables |-> tbls]
    ELSE [ok |-> TRUE,
          tables |-> [tbls EXCEPT ![cat].rows = (@ \ hit) \cup {new[r] : r \in hit}]]

\* the rows of UPDATE cat ... WHERE KEY=key, all rows once a comment has
\* swallowed the WHERE clause
SqlUpdateList(tbls, cat, list, dangling, key) ==
    IF \/ ~list.ok
       \/ dangling /\ ~list.cut
       \/ \E i \in 1..Len(list.assigns) :
            ColIndex(tbls[cat].cols, list.assigns[i].id) = 0
    THEN [ok |-> FALSE, tables |-> tbls]
    ELSE LET hit == IF list.cut THEN tbls[cat].rows
                    ELSE {r \in tbls[cat].rows : r[1] = SqlInteger(key)}
         IN SqlUpdateRows(tbls, cat, hit,
                [r \in hit |-> Assign(r, tbls[cat].cols, list.assigns)])

\* UPDATE cat SET sets WHERE KEY=key; dangling: the SET list ends in a comma
SqlUpdate(tbls, cat, sets, dangling, key) ==
    IF cat \notin DOMAIN tbls THEN [ok |-> FALSE, tables |-> tbls]
    ELSE SqlUpdateList(tbls, cat, SetList(sets, <<>>), dangling, key)

\* DELETE FROM cat without its WHERE clause
SqlDeleteAll(tbls, cat, key) ==
    IF cat \notin DOMAIN tbls THEN [ok |-> FALSE, tables |-> tbls]
    ELSE [ok |-> TRUE, tables |-> [tbls EXCEPT ![cat].rows = {}]]

\* DELETE FROM cat WHERE KEY=key
SqlDelete(tbls, cat, key) ==
    IF cat \notin DOMAIN tbls THEN [ok |-> FALSE, tables |-> tbls]
    ELSE [ok |-> TRUE,
          tables |-> [tbls EXCEPT ![cat].rows =
                        {r \in @ : r[1] # SqlInteger(key)}]]

(***************************************************************************)
(* The store operations of Db.  Each returns its result and the database   *)
(* it leaves: [ok, err, keys, tables].                                     *)
(***************************************************************************)
Result(ok, err, ks, tbls) == [ok |-> ok, err |-> err, keys |-> ks, tables |-> tbls]

\* add_key without the primary key: a registered key is registered anew
add_key_unchecked(ks, key, catagory_id) ==
    [ok |-> TRUE,
     keys |-> [k \in DOMAIN ks \cup {key} |-> IF k = key THEN catagory_id ELSE ks[k]]]

\* Db::add_key: INSERT INTO KEYS; the key is the table's primary key
add_key(ks, key, catagory_id) ==
    IF key \in DOMAIN ks THEN [ok |-> FALSE, keys |-> ks]
    ELSE [ok |-> TRUE,
          keys |-> [k \in DOMAIN ks \cup {key} |->
                        IF k = key THEN catagory_id ELSE ks[k]]]

\* remove_key that removes nothing
remove_key_none(ks, key) == ks

\* Db::remove_key: DELETE FROM KEYS WHERE KEY=key
remove_key(ks, key) == [k \in DOMAIN ks \ {key} |-> ks[k]]

\* swap_key that registers the new key and keeps the old one
swap_key_copy(ks, old_key, new_key) ==
    IF old_key \notin DOMAIN ks \/ new_key = old_key THEN [ok |-> TRUE, keys |-> ks]
    ELSE IF new_key \in DOMAIN ks THEN [ok |-> FALSE, keys |-> ks]
    ELSE [ok |-> TRUE,
          keys |-> [k \in DOMAIN ks \cup {new_key} |->
                        IF k = new_key THEN ks[old_key] ELSE ks[k]]]

\* Db::swap_key: UPDATE KEYS SET KEY=new_key WHERE KEY=old_key
swap_key(ks, old_key, new_key) ==
    IF old_key \notin DOMAIN ks \/ new_key = old_key THEN [ok |-> TRUE, keys |-> ks]
    ELSE IF new_key \in DOMAIN ks THEN [ok |-> FALSE, keys |-> ks]
    ELSE [ok |-> TRUE,
          keys |-> [k \in (DOMAIN ks \ {old_key}) \cup {new_key} |->
                        IF k = new_key THEN ks[old_key] ELSE ks[k]]]

\* Db::grab_catagory_fields: the column names of SELECT * FROM name
grab_catagory_fields(tbls, name) ==
    IF TableExists(tbls, name)
    THEN [ok |-> TRUE,
          fields |-> [i \in 1..Len(TableCols(tbls, name)) |->
                        TableCols(tbls, name)[i].id]]
    ELSE [ok |-> FALSE, fields |-> <<>>]

\* grab_catagory_types that reports the type a column is declared with
grab_catagory_types_declared(tbls, name) ==
    IF TableExists(tbls, name)
    THEN [i \in 1..Len(TableCols(tbls, name)) |->
            IF TableCols(tbls, name)[i].decl = "" THEN "NULL"
            ELSE TableCols(tbls, name)[i].decl]
    ELSE <<>>

\* Db::grab_catagory_types: PRAGMA table_info(name), no row for no table
grab_catagory_types(tbls, name) ==
    IF TableExists(tbls, name)
    THEN [i \in 1..Len(TableCols(tbls, name)) |->
            CASE TableCols(tbls, name)[i].decl = "INTEGER" -> "INTEGER"
              [] TableCols(tbls, name)[i].decl = "REAL" -> "REAL"
              [] OTHER -> "TEXT"]
    ELSE <<>>

\* the end of field_type: the type at the position of the field's name
field_type_of(fields, types, field_id) ==
    IF ~fields.ok THEN [err |-> "NoSuchTable", datatype |-> "NULL"]
    ELSE IF IndexOf(fields.fields, field_id) = 0
    THEN [err |-> "FieldNotFound", datatype |-> "NULL"]
    ELSE [err |-> "", datatype |-> types[IndexOf(fields.fields, field_id)]]

\* Db::field_type
field_type(tbls, catagory_id, field_id) ==
    field_type_of(grab_catagory_fields(tbls, catagory_id),
                  grab_catagory_types(tbls, catagory_id), field_id)

\* the end of format_string_to_field: the text is quoted and checked
format_string_checked(out, datatype) ==
    [err |-> check_value_string(out, datatype), out |-> out]

\* format_string_to_field once the field's type is known
format_string_typed(field_value, type) ==
    IF type.err # "" THEN [err |-> type.err, out |-> <<>>]
    ELSE format_string_checked(
            IF type.datatype = "TEXT" THEN <<"'">> \o field_value \o <<"'">>
            ELSE field_value,
            type.datatype)

\* Db::format_string_to_field
format_string_to_field(tbls, catagory_id, field_id, field_value) ==
    format_string_typed(field_value, field_type(tbls, catagory_id, field_id))

\* add_catagory without the look for an existing table
add_catagory_no_exists_check(ks, tbls, catagory) ==
    IF ~check_id_string(catagory.id)
       \/ \E i \in 1..Len(catagory.fields) : ~check_id_string(catagory.fields[i].id)
    THEN Result(FALSE, "InvalidIdentifier", ks, tbls)
    ELSE IF SqlCreateTable(tbls, catagory.id, catagory.fields).ok
    THEN Result(TRUE, "", ks, SqlCreateTable(tbls, catagory.id, catagory.fields).tables)
    ELSE Result(FALSE, "SqlError", ks, tbls)

\* add_catagory that validates the catagory id and no field id
add_catagory_no_field_check(ks, tbls, catagory) ==
    IF ~check_id_string(catagory.id)
    THEN Result(FALSE, "InvalidIdentifier", ks, tbls)
    ELSE IF TableExists(tbls, catagory.id)
    THEN Result(FALSE, "CatagoryExists", ks, tbls)
    ELSE IF SqlCreateTable(tbls, catagory.id, catagory.fields).ok
    THEN Result(TRUE, "", ks, SqlCreateTable(tbls, catagory.id, catagory.fields).tables)
    ELSE Result(FALSE, "SqlError", ks, tbls)

\* Db::add_catagory
add_catagory(ks, tbls, catagory) ==
    IF ~check_id_string(catagory.id)
    THEN Result(FALSE, "InvalidIdentifier", ks, tbls)
    ELSE IF TableExists(tbls, catagory.id)
    THEN Result(FALSE, "CatagoryExists", ks, tbls)
    ELSE IF \E i \in 1..Len(catagory.fields) : ~check_id_string(catagory.fields[i].id)
    THEN Result(FALSE, "InvalidIdentifier", ks, tbls)
    ELSE LET created == SqlCreateTable(tbls, catagory.id, catagory.fields) IN
         IF created.ok THEN Result(TRUE, "", ks, created.tables)
         ELSE Result(FALSE, "SqlError", ks, tbls)

\* the loop of add_entry over entry.fields: the column list and the value
\* list of the INSERT, or the first error
RECURSIVE add_entry_fields(_, _, _, _, _)
\* one turn of the loop, the field's value formatted
add_entry_field(tbls, catagory_id, fields, ids, lits, field_value) ==
    IF field_value.err # ""
    THEN [err |-> field_value.err, ids |-> <<>>, lits |-> <<>>]
    ELSE IF Len(field_value.out) = 0
    THEN add_entry_fields(tbls, catagory_id, Tail(fields), ids, lits)
    ELSE IF ~check_id_string(fields[1].id)
    THEN [err |-> "InvalidIdentifier", ids |-> <<>>, lits |-> <<>>]
    ELSE add_entry_fields(tbls, catagory_id, Tail(fields),
            Append(ids, fields[1].id), Append(lits, field_value.out))

add_entry_fields(tbls, catagory_id, fields, ids, lits) ==
    IF fields = <<>> THEN [err |-> "", ids |-> ids, lits |-> lits]
    ELSE add_entry_field(tbls, catagory_id, fields, ids, lits,
            format_string_to_field(tbls, catagory_id, fields[1].id, fields[1].value))

\* the end of add_entry: the key is taken back when the insert failed
add_entry_inserted(added, tbls, key, inserted) ==
    IF inserted.ok THEN Result(TRUE, "", added, inserted.tables)
    ELSE Result(FALSE, "InsertFailed", remove_key(added, key), tbls)

\* add_entry with its query built: the key is registered, the row inserted
add_entry_query(ks, tbls, entry, query) ==
    IF query.err # "" THEN Result(FALSE, query.err, ks, tbls)
    ELSE IF ~add_key(ks, entry.key, entry.catagory_id).ok
    THEN Result(FALSE, "KeyAlreadyUsed", ks, tbls)
    ELSE add_entry_inserted(add_key(ks, entry.key, entry.catagory_id).keys, tbls,
            entry.key, SqlInsert(tbls, entry.catagory_id, query.ids, query.lits))

\* add_entry with its location formatted: the query is built
add_entry_location(ks, tbls, entry, location) ==
    IF location.err # "" THEN Result(FALSE, location.err, ks, tbls)
    ELSE add_entry_query(ks, tbls, entry,
            add_entry_fields(tbls, entry.catagory_id, entry.fields,
                <<KEY, LOCATION, QUANTITY, CREATED, MODIFIED>>,
                <<IntToString(entry.key), location.out,
                  IntToString(entry.quantity), IntToString(entry.created),
                  IntToString(entry.modified)>>))

\* Db::add_entry
add_entry(ks, tbls, entry) ==
    add_entry_location(ks, tbls, entry,
        format_string_to_field(tbls, entry.catagory_id, LOCATION, entry.location))

\* add_entry stopped by the end of the process, with the row inserted
\* before the key is registered
add_entry_stopped_insert_first(ks, tbls, entry, point, location, query) ==
    IF \/ location.err # "" \/ query.err # "" \/ point = "built"
       \/ ~SqlInsert(tbls, entry.catagory_id, query.ids, query.lits).ok
    THEN Result(FALSE, "Interrupted", ks, tbls)
    ELSE IF point = "registered"
    THEN Result(FALSE, "Interrupted", ks,
                SqlInsert(tbls, entry.catagory_id, query.ids, query.lits).tables)
    ELSE Result(FALSE, "Interrupted",
                add_key(ks, entry.key, entry.catagory_id).keys,
                SqlInsert(tbls, entry.catagory_id, query.ids, query.lits).tables)

\* what is on disk when the process ends inside add_entry, its location and
\* query formatted.  point is how far the call came: "built" before add_key,
\* "registered" after add_key and before the INSERT is committed, "executed"
\* after execute returned and before the key of a failed INSERT is removed.
\* A call that had returned its error by then is not inside add_entry
add_entry_stopped(ks, tbls, entry, point, location, query) ==
    IF \/ location.err # "" \/ query.err # "" \/ point = "built"
       \/ ~add_key(ks, entry.key, entry.catagory_id).ok
    THEN Result(FALSE, "Interrupted", ks, tbls)
    ELSE IF point = "registered"
            \/ ~SqlInsert(tbls, entry.catagory_id, query.ids, query.lits).ok
    THEN Result(FALSE, "Interrupted",
                add_key(ks, entry.key, entry.catagory_id).keys, tbls)
    ELSE Result(FALSE, "Interrupted",
                add_key(ks, entry.key, entry.catagory_id).keys,
                SqlInsert(tbls, entry.catagory_id, query.ids, query.lits).tables)

\* Db::add_entry, interrupted at point
add_entry_interrupted(ks, tbls, entry, point) ==
    add_entry_stopped(ks, tbls, entry, point,
        format_string_to_field(tbls, entry.catagory_id, LOCATION, entry.location),
        add_entry_fields(tbls, entry.catagory_id, entry.fields,
            <<KEY, LOCATION, QUANTITY, CREATED, MODIFIED>>,
            <<IntToString(entry.key),
              format_string_to_field(tbls, entry.catagory_id, LOCATION,
                                     entry.location).out,
              IntToString(entry.quantity), IntToString(entry.created),
              IntToString(entry.modified)>>))

\* Db::delete_entry, interrupted after its DELETE and before remove_key
delete_entry_interrupted(ks, tbls, key) ==
    IF key \notin DOMAIN ks \/ ~SqlDelete(tbls, ks[key], key).ok
    THEN Result(FALSE, "Interrupted", ks, tbls)
    ELSE Result(FALSE, "Interrupted", ks, SqlDelete(tbls, ks[key], key).tables)

\* Db::delete_entry
delete_entry(ks, tbls, key) ==
    IF key \notin DOMAIN ks THEN Result(FALSE, "KeyNotFound", ks, tbls)
    ELSE LET deleted == SqlDelete(tbls, ks[key], key) IN
         IF ~deleted.ok THEN Result(FALSE, "NoSuchTable", ks, tbls)
         ELSE Result(TRUE, "", remove_key(ks, key), deleted.tables)

\* the loop of mod_entry over fields: the SET list after MODIFIED, the new
\* key if KEY is among the fields, or the first error
RECURSIVE mod_entry_fields(_, _, _, _, _)
\* one turn of the loop for the field KEY, its value decoded
mod_entry_key(tbls, catagory, fields, sets, field_value) ==
    IF ~field_value.ok
    THEN [err |-> "InvalidSymbol", sets |-> <<>>, new_key |-> -1]
    ELSE mod_entry_fields(tbls, catagory, Tail(fields),
            Append(sets, [id |-> KEY, lit |-> IntToString(field_value.v)]),
            field_value.v)

\* one turn of the loop for another field, its value formatted
mod_entry_field(tbls, catagory, fields, sets, new_key, field_value) ==
    IF field_value.err # ""
    THEN [err |-> field_value.err, sets |-> <<>>, new_key |-> -1]
    ELSE mod_entry_fields(tbls, catagory, Tail(fields),
            Append(sets, [id |-> fields[1].id, lit |-> field_value.out]),
            new_key)

mod_entry_fields(tbls, catagory, fields, sets, new_key) ==
    IF fields = <<>> THEN [err |-> "", sets |-> sets, new_key |-> new_key]
    ELSE IF fields[1].id = KEY
    THEN mod_entry_key(tbls, catagory, fields, sets, to_u64(fields[1].value))
    ELSE mod_entry_field(tbls, catagory, fields, sets, new_key,
            format_string_to_field(tbls, catagory, fields[1].id, fields[1].value))

\* mod_entry that leaves the registry as it is when the update failed
mod_entry_no_swap_back(ks, tbls, key, new_key) ==
    Result(FALSE, "UpdateFailed", ks, tbls)

\* mod_entry when the update failed: the registry's key is swapped back
mod_entry_swap_back(ks, tbls, key, new_key) ==
    LET back == IF new_key >= 0 THEN swap_key(ks, new_key, key)
                ELSE [ok |-> TRUE, keys |-> ks]
    IN IF ~back.ok THEN Result(FALSE, "SwapBackFailed", ks, tbls)
       ELSE Result(FALSE, "UpdateFailed", back.keys, tbls)

\* the end of mod_entry, the registry's key swapped and the row updated
mod_entry_updated(swapped, tbls, key, new_key, updated) ==
    IF updated.ok THEN Result(TRUE, "", swapped, updated.tables)
    ELSE mod_entry_swap_back(swapped, tbls, key, new_key)

\* mod_entry_query with the registry's key moved onto a key that is in use
mod_entry_query_forced(ks, tbls, key, query, dangling) ==
    IF query.err # "" THEN Result(FALSE, query.err, ks, tbls)
    ELSE IF query.new_key >= 0 /\ ~swap_key(ks, key, query.new_key).ok
    THEN Result(FALSE, "KeyAlreadyUsed",
                [k \in DOMAIN ks \ {key} |->
                    IF k = query.new_key THEN ks[key] ELSE ks[k]], tbls)
    ELSE mod_entry_updated(
            IF query.new_key >= 0 THEN swap_key(ks, key, query.new_key).keys ELSE ks,
            tbls, key, query.new_key,
            SqlUpdate(tbls, ks[key], query.sets, dangling, key))

\* mod_entry with its query built: the registry's key is swapped, then the
\* row updated
mod_entry_query(ks, tbls, key, query, dangling) ==
    IF query.err # "" THEN Result(FALSE, query.err, ks, tbls)
    ELSE LET swapped == IF query.new_key >= 0 THEN swap_key(ks, key, query.new_key)
                        ELSE [ok |-> TRUE, keys |-> ks]
         IN IF ~swapped.ok THEN Result(FALSE, "KeyAlreadyUsed", ks, tbls)
            ELSE mod_entry_updated(swapped.keys, tbls, key, query.new_key,
                    SqlUpdate(tbls, ks[key], query.sets, dangling, key))

\* Db::mod_entry; now is Local::now().timestamp(); new_key = -1 is None
mod_entry(ks, tbls, key, fields, now) ==
    IF key \notin DOMAIN ks THEN Result(FALSE, "KeyNotFound", ks, tbls)
    ELSE mod_entry_query(ks, tbls, key,
            mod_entry_fields(tbls, ks[key], fields,
                <<[id |-> MODIFIED, lit |-> IntToString(now)]>>, -1),
            fields = <<>>)

\* what a failed read returns in place of an entry
NoEntry ==
    [catagory_id |-> <<>>, key |-> 0, location |-> <<>>,
     quantity |-> 0, created |-> 0, modified |-> 0, fields |-> <<>>]

\* row_to_entry with the columns of quantity and created taken for each other
row_to_entry_swapped(catagory_id, cols, row) ==
    IF \/ row[2].t # "TEXT"
       \/ row[3].t # "INTEGER" \/ row[4].t # "INTEGER" \/ row[4].i < 0
       \/ row[5].t # "INTEGER"
    THEN [ok |-> FALSE, err |-> "Panic", entry |-> NoEntry]
    ELSE [ok |-> TRUE, err |-> "",
          entry |-> [catagory_id |-> ToUpper(catagory_id),
                     key |-> row[1].i,
                     location |-> row[2].s,
                     quantity |-> row[4].i,
                     created |-> row[3].i,
                     modified |-> row[5].i,
                     fields |-> [i \in 1..(Len(cols) - 5) |->
                                   [id |-> cols[i + 5].id,
                                    value |-> sqlval_to_string(row[i + 5])]]]]

\* the Entry of one row; the unwraps panic on a column that does not hold
\* the Entry's type
row_to_entry(catagory_id, cols, row) ==
    IF \/ row[2].t # "TEXT"
       \/ row[3].t # "INTEGER" \/ row[3].i < 0
       \/ row[4].t # "INTEGER" \/ row[5].t # "INTEGER"
    THEN [ok |-> FALSE, err |-> "Panic", entry |-> NoEntry]
    ELSE [ok |-> TRUE, err |-> "",
          entry |-> [catagory_id |-> ToUpper(catagory_id),
                     key |-> row[1].i,
                     location |-> row[2].s,
                     quantity |-> row[3].i,
                     created |-> row[4].i,
                     modified |-> row[5].i,
                     fields |-> [i \in 1..(Len(cols) - 5) |->
                                   [id |-> cols[i + 5].id,
                                    value |-> sqlval_to_string(row[i + 5])]]]]

\* Db::query_to_entry on SELECT * FROM catagory WHERE KEY=key
query_to_entry(tbls, catagory_id, key) ==
    IF catagory_id \notin DOMAIN tbls
    THEN [ok |-> FALSE, err |-> "NoSuchTable", entry |-> NoEntry]
    ELSE LET found == {r \in tbls[catagory_id].rows : r[1] = SqlInteger(key)} IN
         IF found = {}
         THEN [ok |-> FALSE, err |-> "QueryReturnedNoRows", entry |-> NoEntry]
         ELSE row_to_entry(catagory_id, tbls[catagory_id].cols,
                           CHOOSE r \in found : TRUE)

\* Db::grab_entry
grab_entry(ks, tbls, key) ==
    IF key \in DOMAIN ks THEN query_to_entry(tbls, ks[key], key)
    ELSE [ok |-> FALSE, err |-> "KeyNotFound", entry |-> NoEntry]

\* grab_next_available_key that looks one key ahead and no further
next_key_one_step(ks, key) == IF key \in DOMAIN ks THEN key + 1 ELSE key

\* Db::grab_next_available_key
RECURSIVE grab_next_available_key(_, _)
grab_next_available_key(ks, key) ==
    IF key \in DOMAIN ks THEN grab_next_available_key(ks, key + 1) ELSE key

(***************************************************************************)
(* The engine's comparisons (the WHERE clause of search_catagory)          *)
(***************************************************************************)
\* the characters of the model's texts, in the order of their codes
Ascii ==
    <<"\t", "\n", "\r", " ", "!", "#", "$", "%", "&", "'", "(", ")",
      "*", "+", ",", "-", ".", "/",
      "0", "1", "2", "3", "4", "5", "6", "7", "8", "9",
      ":", ";", "<", "=", ">", "?", "@",
      "A", "B", "C", "D", "E", "F", "G", "H", "I", "J", "K", "L", "M",
      "N", "O", "P", "Q", "R", "S", "T", "U", "V", "W", "X", "Y", "Z",
      "[", "\\", "]", "^", "_",
      "a", "b", "c", "d", "e", "f", "g", "h", "i", "j", "k", "l", "m",
      "n", "o", "p", "q", "r", "s", "t", "u", "v", "w", "x", "y", "z",
      "{", "|", "}", "~">>

\* BINARY collation: texts compared character by character, by code
RECURSIVE TextLess(_, _)
TextLess(a, b) ==
    IF b = <<>> THEN FALSE
    ELSE IF a = <<>> THEN TRUE
    ELSE IF a[1] = b[1] THEN TextLess(Tail(a), Tail(b))
    ELSE IndexOf(Ascii, a[1]) < IndexOf(Ascii, b[1])

\* a numeric value as mantissa and decimal exponent
NumMant(v) == IF v.t = "INTEGER" THEN v.i ELSE v.m

NumExp(v) == IF v.t = "INTEGER" THEN 0 ELSE v.e

\* a < b for two numeric values, both scaled to the smaller exponent
NumLessAt(a, b, lo) ==
    NumMant(a) * Pow10(NumExp(a) - lo) < NumMant(b) * Pow10(NumExp(b) - lo)

NumLess(a, b) ==
    NumLessAt(a, b, IF NumExp(a) < NumExp(b) THEN NumExp(a) ELSE NumExp(b))

\* a < b for two values that are not NULL: numbers by value, texts by
\* collation, a number before a text
SqlLess(a, b) ==
    CASE a.t \in {"INTEGER", "REAL"} /\ b.t \in {"INTEGER", "REAL"} -> NumLess(a, b)
      [] a.t \in {"INTEGER", "REAL"} /\ b.t = "TEXT" -> TRUE
      [] a.t = "TEXT" /\ b.t \in {"INTEGER", "REAL"} -> FALSE
      [] OTHER -> TextLess(a.s, b.s)

\* a op b is true; a comparison with NULL is not
SqlHolds(op, a, b) ==
    IF a.t = "NULL" \/ b.t = "NULL" THEN FALSE
    ELSE CASE op = <<"=">> -> ~SqlLess(a, b) /\ ~SqlLess(b, a)
           [] op = <<"!", "=">> -> SqlLess(a, b) \/ SqlLess(b, a)
           [] op = <<"<">> -> SqlLess(a, b)
           [] op = <<">">> -> SqlLess(b, a)
           [] op = <<"<", "=">> -> ~SqlLess(b, a)
           [] OTHER -> ~SqlLess(a, b)

\* the text of a REAL written in full, for exponents the engine does not
\* print in the e form
RealText(mant, exp) ==
    LET d == NatToDigits(IF mant < 0 THEN -mant ELSE mant) IN
    (IF mant < 0 THEN <<"-">> ELSE <<>>)
    \o (IF exp >= 0
        THEN d \o [i \in 1..exp |-> "0"] \o <<".", "0">>
        ELSE IF Len(d) > -exp
        THEN SubSeq(d, 1, Len(d) + exp) \o <<".">> \o SubSeq(d, Len(d) + exp + 1, Len(d))
        ELSE <<"0", ".">> \o [i \in 1..(-exp - Len(d)) |-> "0"] \o d)

\* the affinity of the column applied to the literal it is compared with
CompareAffinity(lit, decl) ==
    CASE decl \notin {"TEXT", "BLOB"} /\ lit.t = "TEXT"
            /\ NumLiteral(lit.s).ok /\ NumLiteral(lit.s).rest = <<>> ->
                NumLiteral(lit.s).val
      [] decl = "TEXT" /\ lit.t = "INTEGER" -> SqlText(IntToString(lit.i))
      [] decl = "TEXT" /\ lit.t = "REAL" -> SqlText(RealText(lit.m, lit.e))
      [] OTHER -> lit

\* the rows of a table; the registry has a row per key
TableRows(ks, tbls, name) ==
    IF name = KEYS THEN {<<SqlInteger(k), SqlText(ks[k])>> : k \in DOMAIN ks}
    ELSE tbls[name].rows

(***************************************************************************)
(* Db::search_catagory and Db::query_to_entries                            *)
(***************************************************************************)
\* the engine's reading of "ID=value" in the WHERE clause: a column name, a
\* comparison that ends in the = the code wrote, one literal.  What stands
\* between the name and the = makes the comparison !=, <= or >=.
search_term(cols, id, value) ==
    [ok |-> /\ IdentRun(id) >= 1
            /\ Drop(id, IdentRun(id)) \in {<<>>, <<"!">>, <<"<">>, <<">">>}
            /\ ColIndex(cols, SubSeq(id, 1, IdentRun(id))) # 0
            /\ Literal(value).ok
            /\ Literal(value).rest = <<>>,
     col |-> ColIndex(cols, SubSeq(id, 1, IdentRun(id))),
     op |-> Drop(id, IdentRun(id)) \o <<"=">>,
     val |-> Literal(value).val]

\* the rows for which every term of the WHERE clause is true
SearchRowsAny(cols, rows, terms) ==
    {r \in rows : \E i \in 1..Len(terms) :
        SqlHolds(terms[i].op, r[terms[i].col],
                 CompareAffinity(terms[i].val, cols[terms[i].col].decl))}

SearchRows(cols, rows, terms) ==
    {r \in rows : \A i \in 1..Len(terms) :
        SqlHolds(terms[i].op, r[terms[i].col],
                 CompareAffinity(terms[i].val, cols[terms[i].col].decl))}

\* the rows in the order of the table scan, which is the order of KEY
RECURSIVE RowsInOrder(_)
RowsInOrder(rows) ==
    IF rows = {} THEN <<>>
    ELSE <<CHOOSE r \in rows : \A q \in rows : r[1].i <= q[1].i>>
         \o RowsInOrder(rows \ {CHOOSE r \in rows : \A q \in rows : r[1].i <= q[1].i})

\* the entries of the rows, once every row is known to convert
query_to_entries_ordered(catagory_id, cols, ordered) ==
    [ok |-> TRUE, err |-> "",
     entries |-> [i \in 1..Len(ordered) |->
                    row_to_entry(catagory_id, cols, ordered[i]).entry]]

\* Db::query_to_entries on the rows a query selects: a row that has no
\* column 2, or a column that does not hold the Entry's type, is an error
query_to_entries(catagory_id, cols, rows) ==
    IF \E r \in rows : Len(cols) < 5 \/ ~row_to_entry(catagory_id, cols, r).ok
    THEN [ok |-> FALSE, err |-> "InvalidColumn", entries |-> <<>>]
    ELSE query_to_entries_ordered(catagory_id, cols, RowsInOrder(rows))

\* the query once the engine has read its terms
search_catagory_where(catagory_id, cols, rows, terms) ==
    IF \E i \in 1..Len(terms) : ~terms[i].ok
    THEN [ok |-> FALSE, err |-> "SqlError", entries |-> <<>>]
    ELSE query_to_entries(catagory_id, cols, SearchRows(cols, rows, terms))

\* the loop over the conditions once each is known to split in two
search_catagory_split(ks, tbls, catagory_id, split) ==
    IF ~TableExists(tbls, catagory_id)
    THEN [ok |-> FALSE, err |-> "NoSuchTable", entries |-> <<>>]
    ELSE search_catagory_where(catagory_id, TableCols(tbls, catagory_id),
            TableRows(ks, tbls, catagory_id),
            [i \in 1..Len(split) |->
                search_term(TableCols(tbls, catagory_id),
                            ToUpper(split[i][1]), split[i][2])])

\* Db::search_catagory
search_catagory(ks, tbls, catagory_id, conditions) ==
    IF \E i \in 1..Len(conditions) : Len(Split(conditions[i], <<"=">>)) # 2
    THEN [ok |-> FALSE, err |-> "InvalidCondition", entries |-> <<>>]
    ELSE search_catagory_split(ks, tbls, catagory_id,
            [i \in 1..Len(conditions) |-> Split(conditions[i], <<"=">>)])

\* the placeholder of the templates
Token == <<"F", "O", "O", "!">>

\* the loop of fill_svg_template at chunk i; key is the key grabbed for it
RECURSIVE fill_svg_template_loop(_, _, _, _, _)
fill_svg_template_chunk(ks, chunks, i, key, data) ==
    IF i = Len(chunks)
    THEN [panic |-> FALSE, s |-> data \o chunks[i]]
    ELSE IF from_u64(key).panic THEN [panic |-> TRUE, s |-> <<>>]
    ELSE fill_svg_template_loop(ks, chunks, i + 1, key + 1,
            data \o chunks[i] \o from_u64(key).s)

fill_svg_template_loop(ks, chunks, i, key, data) ==
    fill_svg_template_chunk(ks, chunks, i, grab_next_available_key(ks, key), data)

\* fill_svg_template that starts its scan of the keys at 1
fill_svg_template_from_one(ks, data) ==
    fill_svg_template_loop(ks, Split(data, Token), 1, 1, <<>>)

\* Db::fill_svg_template
fill_svg_template(ks, data) ==
    fill_svg_template_loop(ks, Split(data, Token), 1, 0, <<>>)

\* the names in ascending order of the BINARY collation
RECURSIVE SortNames(_)
SortNames(names) ==
    IF names = {} THEN <<>>
    ELSE <<CHOOSE n \in names : \A m \in names \ {n} : TextLess(n, m)>>
         \o SortNames(names \ {CHOOSE n \in names : \A m \in names \ {n} : TextLess(n, m)})

\* list_catagories without its condition on the name
list_catagories_unfiltered(tbls) == SortNames({KEYS} \cup DOMAIN tbls)

\* Db::list_catagories: the tables of sqlite_schema but KEYS, ordered by name
list_catagories(tbls) ==
    SortNames({name \in {KEYS} \cup DOMAIN tbls : name # KEYS})

\* delete_empty_catagory that does not look at the rows
delete_empty_catagory_unchecked(ks, tbls, name) ==
    IF name \notin DOMAIN tbls THEN Result(FALSE, "CatagoryNotFound", ks, tbls)
    ELSE Result(TRUE, "", ks, [c \in DOMAIN tbls \ {name} |-> tbls[c]])

\* Db::delete_empty_catagory, the call of the catagory dialog (tui.rs), as the
\* specification words it: an error when the table has any rows, otherwise
\* the table is dropped; the registry's table is no catagory
delete_empty_catagory(ks, tbls, name) ==
    IF name \notin DOMAIN tbls THEN Result(FALSE, "CatagoryNotFound", ks, tbls)
    ELSE IF tbls[name].rows # {} THEN Result(FALSE, "CatagoryNotEmpty", ks, tbls)
    ELSE Result(TRUE, "", ks, [c \in DOMAIN tbls \ {name} |-> tbls[c]])

(***************************************************************************)
(* The inputs the operations are driven with                               *)
(***************************************************************************)
MaxKey == 2          \* keys are 0..MaxKey
MaxEntries == 2      \* at most this many registered keys
MaxTime == 0         \* the clock reads 0..MaxTime when an entry is modified

KeyIds == 0..MaxKey

RES == <<"R", "E", "S">>
CAP == <<"C", "A", "P">>
MPN == <<"M", "P", "N">>
OHMS == <<"O", "H", "M", "S">>
FARADS == <<"F", "A", "R", "A", "D", "S">>
NOPE == <<"N", "O", "P", "E">>

\* a text that closes the literal it is quoted into and goes on as SQL
Inj == <<"\\", "'", ",", "K", "E", "Y", "=", "1", "-", "-">>

Field(id, value) == [id |-> id, value |-> value]
CatagoryField(id, datatype) == [id |-> id, datatype |-> datatype]

\* the definitions add_catagory is called with: two well-formed ones, and
\* ones with an invalid id, an invalid field id (first or last), the
\* registry's name, no field, the same field twice, a field id with a comma
CatagoryDefs ==
    {[id |-> RES, fields |-> <<CatagoryField(MPN, "TEXT"), CatagoryField(OHMS, "REAL")>>],
     [id |-> CAP, fields |-> <<CatagoryField(FARADS, "REAL")>>],
     [id |-> <<"R", "-">>, fields |-> <<CatagoryField(MPN, "TEXT")>>],
     [id |-> CAP, fields |-> <<CatagoryField(FARADS, "REAL"), CatagoryField(<<"O", "+">>, "REAL")>>],
     [id |-> CAP, fields |-> <<CatagoryField(<<"_", "A">>, "REAL"), CatagoryField(FARADS, "REAL")>>],
     [id |-> KEYS, fields |-> <<CatagoryField(MPN, "TEXT")>>],
     [id |-> CAP, fields |-> <<>>],
     [id |-> CAP, fields |-> <<CatagoryField(MPN, "TEXT"), CatagoryField(MPN, "TEXT")>>],
     [id |-> CAP, fields |-> <<CatagoryField(<<"A", ",", "B">>, "TEXT")>>]}

\* an entry as the caller hands it over: location a, quantity 1, created at 0
Entry(catagory_id, key, fields) ==
    [catagory_id |-> catagory_id, key |-> key, location |-> <<"a">>,
     quantity |-> 1, created |-> 0, modified |-> 0, fields |-> fields]

\* the field lists of the entries add_entry accepts in RES: every field in
\* column order, every field in another order, one field only and its value
\* not in the form the engine prints
ResFields ==
    {<<Field(MPN, <<"a">>), Field(OHMS, <<"8", ".", "2", "e", "6">>)>>,
     <<Field(OHMS, <<"8", ".", "2", "e", "6">>), Field(MPN, <<"a">>)>>,
     <<Field(OHMS, <<"3", "9">>)>>}

\* field lists add_entry refuses: a value that is no number, a field that is
\* no column, a value the validator passes and the engine reads as a comment
BadFields ==
    {<<Field(MPN, <<"a">>), Field(OHMS, <<"x">>)>>,
     <<Field(NOPE, <<"a">>)>>,
     <<Field(OHMS, <<"-", "-", "1">>)>>}

\* the entries add_entry is called with; the last ones name a catagory that
\* does not exist, under a valid id and under an invalid one, and carry a
\* location that closes its own literal
Entries ==
    {Entry(RES, k, f) : k \in KeyIds, f \in ResFields}
    \cup {Entry(RES, 0, f) : f \in BadFields}
    \cup {Entry(CAP, k, <<Field(FARADS, <<"1", ".", "2", "e", "-", "3">>)>>) :
            k \in KeyIds}
    \cup {Entry(NOPE, 0, <<Field(MPN, <<"a">>)>>),
          Entry(<<"N", "-">>, 0, <<Field(MPN, <<"a">>)>>),
          [Entry(RES, 0, <<Field(OHMS, <<"3", "9">>)>>) EXCEPT !.location = Inj]}

\* entries with a user field of no value, of each type RES declares
EmptyValueEntries ==
    {Entry(RES, k, f) : k \in KeyIds,
        f \in {<<Field(MPN, <<"a">>), Field(OHMS, <<>>)>>,
               <<Field(MPN, <<>>), Field(OHMS, <<"3", "9">>)>>,
               <<Field(OHMS, <<>>)>>}}

\* the field lists mod_entry is called with
ModFields ==
    {<<>>,
     <<Field(MPN, Inj)>>,
     <<Field(NOPE, <<"1">>)>>,
     <<Field(OHMS, <<"x">>)>>,
     <<Field(KEY, <<"!">>)>>}
    \cup {<<Field(KEY, from_u64(k).s)>> : k \in KeyIds}
    \cup {<<Field(KEY, from_u64(k).s), Field(QUANTITY, <<"-", "-", "1">>)>> : k \in KeyIds}

\* field lists with a change of KEY next to a field mod_entry refuses: a value
\* that is no number, a field that is no column, before and after the KEY
EarlyFailFields ==
    UNION {{<<Field(KEY, from_u64(k).s), Field(OHMS, <<"x">>)>>,
            <<Field(KEY, from_u64(k).s), Field(NOPE, <<"1">>)>>,
            <<Field(OHMS, <<"x">>), Field(KEY, from_u64(k).s)>>,
            <<Field(KEY, from_u64(k).s), Field(KEY, <<"!">>)>>} : k \in KeyIds}

MaxStamp == 2        \* the clock reads 0..MaxStamp when mod_entry is asked about

\* field lists that name each kind of column: the two time stamps, a fixed
\* column, a fixed column and a user field, the key
StampFields ==
    {<<Field(CREATED, <<"5">>)>>,
     <<Field(MODIFIED, <<"5">>)>>,
     <<Field(LOCATION, <<"b">>)>>,
     <<Field(QUANTITY, <<"2">>), Field(MPN, <<"b">>)>>}
    \cup {<<Field(KEY, from_u64(k).s)>> : k \in KeyIds}

\* one condition for each comparison the engine knows, on KEY against 1
OperatorConditions ==
    {KEY \o op \o <<"1">> :
        op \in {<<"=">>, <<"!", "=">>, <<"<">>, <<">">>, <<"<", "=">>, <<">", "=">>}}

\* the condition lists search_catagory is called with: none, one of each
\* comparison, a lowercase field id, two conditions that different rows
\* meet, a field that is no column, a doubled =
SearchConditions ==
    {<<>>}
    \cup {<<c>> : c \in OperatorConditions}
    \cup {<<<<"k", "e", "y">> \o <<"=", "0">>>>,
          <<KEY \o <<">", "=", "1">>, OHMS \o <<"=", "3", "9">>>>,
          <<MPN \o <<"=", "'", "a", "'">>, OHMS \o <<">", "=", "4", "0">>>>,
          <<NOPE \o <<"=", "1">>>>,
          <<KEY \o <<"=", "=", "0">>>>}

\* the catagories searched: the two of the definitions, one that is never
\* created, and the registry's own table
SearchedCatagories == {RES, CAP, NOPE, KEYS}

\* the searches the store is driven with: every catagory with no condition,
\* with one the code splits in two and with one it does not
SearchCalls ==
    SearchedCatagories
    \X {<<>>, <<KEY \o <<">", "=", "1">>>>, <<KEY \o <<"<", "1">>>>}

\* the catagories delete_empty_catagory is called with
DeletedCatagories == {RES, CAP, NOPE}

\* the pieces joined with sep between them
RECURSIVE Join(_, _)
Join(pieces, sep) ==
    IF Len(pieces) <= 1 THEN (IF pieces = <<>> THEN <<>> ELSE pieces[1])
    ELSE pieces[1] \o sep \o Join(Tail(pieces), sep)

\* the templates, each as the chunks around its placeholders: an empty
\* text, a text with no placeholder, with one, with two between chunks that
\* are beginnings of the placeholder, with three in a row
TemplateChunks ==
    {<<<<>>>>,
     <<<<"a">>>>,
     <<<<"a">>, <<"b">>>>,
     <<<<"F", "O">>, <<"F", "O", "O">>, <<"!">>>>,
     <<<<"x">>, <<>>, <<>>, <<"y">>>>}

Templates == {Join(chunks, Token) : chunks \in TemplateChunks}

(***************************************************************************)
(* The store as a state machine: one action per operation, run to its end  *)
(***************************************************************************)
\* the record of a completed operation: its name, its result, and whether it
\* changed the registry, and a table
Done(op, r) ==
    [op |-> op, ok |-> r.ok, err |-> r.err,
     keys_changed |-> r.keys # keys, tables_changed |-> r.tables # tables]

\* Db::_new_test: an empty registry and no catagory
Init ==
    /\ keys = <<>>
    /\ tables = <<>>
    /\ last = Done("init", Result(TRUE, "", keys, tables))

AddCatagory(catagory) ==
    LET r == add_catagory(keys, tables, catagory) IN
    /\ keys' = r.keys
    /\ tables' = r.tables
    /\ last' = Done("add_catagory", r)

\* the store holds at most MaxEntries entries
AddEntry(entry) ==
    LET r == add_entry(keys, tables, entry) IN
    /\ r.ok => Cardinality(DOMAIN keys) < MaxEntries
    /\ keys' = r.keys
    /\ tables' = r.tables
    /\ last' = Done("add_entry", r)

ModEntry(key, fields, now) ==
    LET r == mod_entry(keys, tables, key, fields, now) IN
    /\ keys' = r.keys
    /\ tables' = r.tables
    /\ last' = Done("mod_entry", r)

DeleteEntry(key) ==
    LET r == delete_entry(keys, tables, key) IN
    /\ keys' = r.keys
    /\ tables' = r.tables
    /\ last' = Done("delete_entry", r)

GrabEntry(key) ==
    /\ last' = Done("grab_entry",
                    Result(grab_entry(keys, tables, key).ok,
                           grab_entry(keys, tables, key).err, keys, tables))
    /\ UNCHANGED <<keys, tables>>

GrabNextAvailableKey(key) ==
    /\ last' = Done("grab_next_available_key",
                    Result(grab_next_available_key(keys, key) >= key, "", keys, tables))
    /\ UNCHANGED <<keys, tables>>

\* fill_svg_template that registers the first key it hands out
FillSvgTemplateReserving(data) ==
    /\ last' = Done("fill_svg_template",
                    Result(~fill_svg_template(keys, data).panic, "", keys, tables))
    /\ keys' = add_key(keys, grab_next_available_key(keys, 0), RES).keys
    /\ UNCHANGED tables

FillSvgTemplate(data) ==
    /\ last' = Done("fill_svg_template",
                    Result(~fill_svg_template(keys, data).panic, "", keys, tables))
    /\ UNCHANGED <<keys, tables>>

SearchCatagory(catagory_id, conditions) ==
    /\ last' = Done("search_catagory",
                    Result(search_catagory(keys, tables, catagory_id, conditions).ok,
                           search_catagory(keys, tables, catagory_id, conditions).err,
                           keys, tables))
    /\ UNCHANGED <<keys, tables>>

GrabCatagoryFields(name) ==
    /\ last' = Done("grab_catagory_fields",
                    Result(grab_catagory_fields(tables, name).ok,
                           IF grab_catagory_fields(tables, name).ok THEN ""
                           ELSE "NoSuchTable",
                           keys, tables))
    /\ UNCHANGED <<keys, tables>>

ListCatagories ==
    /\ last' = Done("list_catagories",
                    Result(Len(list_catagories(tables)) = Cardinality(DOMAIN tables),
                           "", keys, tables))
    /\ UNCHANGED <<keys, tables>>

DeleteEmptyCatagory(name) ==
    LET r == delete_empty_catagory(keys, tables, name) IN
    /\ keys' = r.keys
    /\ tables' = r.tables
    /\ last' = Done("delete_empty_catagory", r)

Next ==
    \/ \E catagory \in CatagoryDefs : AddCatagory(catagory)
    \/ \E entry \in Entries : AddEntry(entry)
    \/ \E key \in KeyIds, fields \in ModFields, now \in 0..MaxTime :
          ModEntry(key, fields, now)
    \/ \E key \in KeyIds : DeleteEntry(key)
    \/ \E key \in KeyIds : GrabEntry(key)
    \/ \E key \in KeyIds : GrabNextAvailableKey(key)
    \/ \E data \in Templates : FillSvgTemplate(data)
    \/ \E call \in SearchCalls : SearchCatagory(call[1], call[2])
    \/ \E name \in SearchedCatagories : GrabCatagoryFields(name)
    \/ ListCatagories
    \/ \E name \in DeletedCatagories : DeleteEmptyCatagory(name)

Spec == Init /\ [][Next]_vars

(***************************************************************************)
(* The codec on its own: from_u64 and to_u64 applied to numbers and texts  *)
(***************************************************************************)
MaxNumber == 70      \* from_u64 is applied to 0..MaxNumber and around 64^2, 64^3
MaxSymbols == 3      \* to_u64 is applied to every text of up to this length

\* the numbers from_u64 is applied to: one and two symbols, and the numbers
\* around the first ones of three and of four symbols
CodecNumbers ==
    (0..MaxNumber)
    \cup {64 * 64 + d : d \in {-1, 0, 1}}
    \cup {64 * 64 * 64 + d : d \in {-1, 0, 1}}

\* every sequence over chars of length 0..n
RECURSIVE Strings(_, _)
Strings(chars, n) ==
    IF n = 0 THEN {<<>>}
    ELSE Strings(chars, n - 1)
         \cup {Append(s, c) : s \in Strings(chars, n - 1), c \in chars}

\* n times the symbol c
Repeat(c, n) == [i \in 1..n |-> c]

\* the texts to_u64 is applied to: short ones over symbols, a space and a
\* character that is no symbol; and texts of ten, eleven and twelve
\* characters whose place value is ten
CodecTexts ==
    Strings({"0", "1", "z", "-", " ", "!"}, MaxSymbols)
    \cup {Repeat("0", 9) \o <<"A">>,
          Repeat("0", 10) \o <<"A">>,
          <<"!">> \o Repeat("0", 10) \o <<"A">>}

FromU64(num) ==
    /\ last' = [op |-> "from_u64", num |-> num, out |-> from_u64(num)]
    /\ UNCHANGED <<keys, tables>>

\* the build decides what an overflow does
ToU64(string, overflow_checks) ==
    /\ last' = [op |-> "to_u64", string |-> string,
                out |-> to_u64_build(string, overflow_checks)]
    /\ UNCHANGED <<keys, tables>>

CodecNext ==
    \/ \E num \in CodecNumbers : FromU64(num)
    \/ \E string \in CodecTexts, overflow_checks \in BOOLEAN :
          ToU64(string, overflow_checks)

CodecSpec == Init /\ [][CodecNext]_vars

(***************************************************************************)
(* The validators on their own, applied to every short text                *)
(***************************************************************************)
MaxIdLen == 2        \* check_id_string is applied to every text of up to this length
MaxValueLen == 4     \* check_value_string likewise

\* the characters of the identifiers: a letter of each case, a digit, one
\* whitespace, each character VALID_RE excludes, and three it does not
IdChars ==
    {"A", "a", "0", " ", "_", "(", "'",
     "+", "\\", "-", "*", "/", "%", "&", "|", "^", "=", ">", "<", ";"}

\* the identifiers of the tests (test_db_string_format_id_test) and the empty one
IdTexts ==
    Strings(IdChars, MaxIdLen)
    \cup {<<"F", "O", "O">>, <<"F", "O", "O", "0">>, <<"F", "O", "O", "+">>,
          <<"f", "o", "o">>, <<"0", "f", "o", "o">>}

\* the numbers: every text over a digit, the dash, the exponent letter and
\* the point
NumberTexts == Strings({"1", "-", "e", "."}, MaxValueLen)

\* the texts: quoted, with a quote inside, with an escaped quote inside, bare
QuotedTexts ==
    {<<"'", "a", "'">>, <<"'", "a", "'", "b", "'">>,
     <<"'", "\\", "'", "b", "'">>, <<"'", "'">>, <<"a">>}

\* the values check_value_string is applied to, each with its datatype
ValueChecks ==
    (NumberTexts \X {"INTEGER", "REAL"})
    \cup (QuotedTexts \X {"TEXT", "NULL", "BLOB"})

CheckIdString(id) ==
    /\ last' = [op |-> "check_id_string", id |-> id, ok |-> check_id_string(id)]
    /\ UNCHANGED <<keys, tables>>

CheckValueString(value, datatype) ==
    /\ last' = [op |-> "check_value_string", value |-> value,
                datatype |-> datatype,
                err |-> check_value_string(value, datatype)]
    /\ UNCHANGED <<keys, tables>>

ValidatorNext ==
    \/ \E id \in IdTexts : CheckIdString(id)
    \/ \E check \in ValueChecks : CheckValueString(check[1], check[2])

ValidatorSpec == Init /\ [][ValidatorNext]_vars

(***************************************************************************)
(* The store with a process that can end inside add_entry and delete_entry: *)
(* the next process opens the file as the last statement left it            *)
(***************************************************************************)
\* how far an interrupted add_entry came
Points == {"built", "registered", "executed"}

\* the definitions, and the entries, of this store; the INSERT of the last
\* entry fails
CrashDefs ==
    {[id |-> RES, fields |-> <<CatagoryField(MPN, "TEXT"), CatagoryField(OHMS, "REAL")>>],
     [id |-> CAP, fields |-> <<CatagoryField(FARADS, "REAL")>>]}

CrashEntries ==
    {Entry(RES, k, <<Field(OHMS, <<"3", "9">>)>>) : k \in KeyIds}
    \cup {Entry(CAP, k, <<Field(FARADS, <<"1", ".", "2", "e", "-", "3">>)>>) :
            k \in KeyIds}
    \cup {Entry(RES, 0, <<Field(OHMS, <<"-", "-", "1">>)>>)}

AddEntryInterrupted(entry, point) ==
    LET r == add_entry_interrupted(keys, tables, entry, point) IN
    /\ Cardinality(DOMAIN r.keys) <= MaxEntries
    /\ keys' = r.keys
    /\ tables' = r.tables
    /\ last' = Done("add_entry_interrupted", r)

DeleteEntryInterrupted(key) ==
    LET r == delete_entry_interrupted(keys, tables, key) IN
    /\ keys' = r.keys
    /\ tables' = r.tables
    /\ last' = Done("delete_entry_interrupted", r)

CrashNext ==
    \/ \E catagory \in CrashDefs : AddCatagory(catagory)
    \/ \E entry \in CrashEntries : AddEntry(entry)
    \/ \E entry \in CrashEntries, point \in Points : AddEntryInterrupted(entry, point)
    \/ \E key \in KeyIds : DeleteEntry(key)
    \/ \E key \in KeyIds : DeleteEntryInterrupted(key)
    \/ \E key \in KeyIds : GrabNextAvailableKey(key)
    \/ \E name \in DeletedCatagories : DeleteEmptyCatagory(name)

CrashSpec == Init /\ [][CrashNext]_vars

(***************************************************************************)
(* The store with a catagory that declares a field of every DataType        *)
(***************************************************************************)
TYP == <<"T", "Y", "P">>

TypeDefs ==
    {[id |-> TYP,
      fields |-> <<CatagoryField(<<"N">>, "NULL"), CatagoryField(<<"B">>, "BLOB"),
                   CatagoryField(<<"T">>, "TEXT"), CatagoryField(<<"I">>, "INTEGER"),
                   CatagoryField(<<"R">>, "REAL")>>]}

\* field lists for the catagory: a value for each field, a number where text
\* is declared, text where a number is, a value with a quote in it
TypeFields ==
    {<<Field(<<"N">>, <<"a">>)>>,
     <<Field(<<"B">>, <<"b">>)>>,
     <<Field(<<"N">>, <<"1">>), Field(<<"B">>, <<"2">>), Field(<<"T">>, <<"c">>),
       Field(<<"I">>, <<"3">>), Field(<<"R">>, <<"4">>)>>,
     <<Field(<<"I">>, <<"x">>)>>,
     <<Field(<<"B">>, <<"'">>)>>}

TypeEntries == {Entry(TYP, k, f) : k \in KeyIds, f \in TypeFields}

GrabCatagoryTypes(name) ==
    /\ last' = Done("grab_catagory_types",
                    Result(grab_catagory_types(tables, name) # <<>>, "", keys, tables))
    /\ UNCHANGED <<keys, tables>>

TypesNext ==
    \/ \E catagory \in TypeDefs : AddCatagory(catagory)
    \/ \E entry \in TypeEntries : AddEntry(entry)
    \/ \E key \in KeyIds, fields \in TypeFields : ModEntry(key, fields, 0)
    \/ \E key \in KeyIds : DeleteEntry(key)
    \/ \E name \in {TYP, NOPE} : GrabCatagoryTypes(name)

TypesSpec == Init /\ [][TypesNext]_vars

(***************************************************************************)
(* Properties.  A property of an operation is stated for every input the   *)
(* operation is driven with, in every state the store reaches.             *)
(***************************************************************************)
\* the catagories whose table holds a row with key k
Holders(tbls, k) ==
    {c \in DOMAIN tbls : \E row \in tbls[c].rows : row[1] = SqlInteger(k)}

\* the keys that have a live entry: registered, and read back by grab_entry
Live(ks, tbls) == {k \in DOMAIN ks : grab_entry(ks, tbls, k).ok}

\* C1: after any sequence of completed operations a key is in the registry if
\* and only if exactly one catagory table holds a row with that key, and that
\* table is the one the registry names.
RegistryMatchesTables ==
    /\ \A k \in DOMAIN keys : Holders(tables, k) = {keys[k]}
    /\ \A c \in DOMAIN tables : \A row \in tables[c].rows :
          row[1].t = "INTEGER" /\ row[1].i \in DOMAIN keys

\* add_entry on a key that has a live entry: refused, the entry read as before
AddRefused(entry, r) ==
    /\ ~r.ok
    /\ grab_entry(r.keys, r.tables, entry.key) = grab_entry(keys, tables, entry.key)
    /\ r.keys[entry.key] = keys[entry.key]

\* C2: add_entry with a key already held by a live entry, of the same catagory
\* or of another, fails, and grab_entry on that key still returns the
\* original entry in its original catagory.
KeysAreUnique ==
    \A entry \in Entries :
        entry.key \in Live(keys, tables) =>
            AddRefused(entry, add_entry(keys, tables, entry))

\* C2 witness: an add_entry was refused for its key while entries of both
\* catagories are live.
KeysAreUniqueWitness ==
    /\ last.op = "add_entry" /\ last.err = "KeyAlreadyUsed"
    /\ {keys[k] : k \in Live(keys, tables)} = {RES, CAP}

\* a result that is an error leaves the registry and the tables as they were
ErrorKeeps(r) == ~r.ok => r.keys = keys /\ r.tables = tables

\* C3: whenever add_entry returns an error, the registry and every catagory
\* table hold what they held before the call; the key registered before a
\* failed insert is taken back.
AddEntryErrorKeeps ==
    \A entry \in Entries : ErrorKeeps(add_entry(keys, tables, entry))

\* C3 witness: the insert of an add_entry failed after its key was
\* registered, in a store that holds an entry.
AddEntryErrorKeepsWitness ==
    /\ last.op = "add_entry" /\ last.err = "InsertFailed" /\ ~last.keys_changed
    /\ Live(keys, tables) # {}

\* a value as the engine prints it back: text without quote or backslash, a
\* number that reads as a literal and prints as it is written
Printed(value, decl) ==
    IF decl = "TEXT" THEN \A i \in 1..Len(value) : value[i] \notin {"'", "\\"}
    ELSE /\ NumLiteral(value).ok
         /\ sqlval_to_string(Affinity(NumLiteral(value).val, decl)) = value

\* an entry that names every user field of its catagory once, in column
\* order, each value as the engine prints it back
Canonical(tbls, entry) ==
    /\ entry.catagory_id \in DOMAIN tbls
    /\ Len(entry.fields) = Len(tbls[entry.catagory_id].cols) - Len(FixedCols)
    /\ \A i \in 1..Len(entry.fields) :
          /\ entry.fields[i].id = tbls[entry.catagory_id].cols[i + Len(FixedCols)].id
          /\ Printed(entry.fields[i].value,
                     tbls[entry.catagory_id].cols[i + Len(FixedCols)].decl)
    /\ Printed(entry.location, "TEXT")

\* an accepted entry is read back as it was handed over
GrabEqualsInserted(entry, r) ==
    r.ok => grab_entry(r.keys, r.tables, entry.key)
                = [ok |-> TRUE, err |-> "", entry |-> entry]

KeyMoved(k, k2, r) ==
    r.ok =>
        /\ grab_entry(r.keys, r.tables, k).err = "KeyNotFound"
        /\ grab_entry(r.keys, r.tables, k2).ok
        /\ [grab_entry(r.keys, r.tables, k2).entry EXCEPT !.modified = 0]
             = [grab_entry(keys, tables, k).entry EXCEPT !.key = k2, !.modified = 0]
        /\ DOMAIN r.keys \ {k, k2} = DOMAIN keys \ {k, k2}
        /\ \A k3 \in DOMAIN keys \ {k, k2} :
              /\ r.keys[k3] = keys[k3]
              /\ grab_entry(r.keys, r.tables, k3) = grab_entry(keys, tables, k3)

\* C5: after a successful mod_entry(k, [KEY=k2]), k2 in the codec's text form
\* and not in use, grab_entry(k) fails because k is no longer registered and
\* grab_entry(k2) returns the original row under the new key; every other
\* entry is unchanged.
ModEntryMovesKey ==
    \A k \in Live(keys, tables), k2 \in KeyIds \ DOMAIN keys, now \in 0..MaxTime :
        KeyMoved(k, k2, mod_entry(keys, tables, k, <<Field(KEY, from_u64(k2).s)>>, now))

\* C5 witness: a mod_entry succeeded and changed the registry while two
\* entries are live.
ModEntryMovesKeyWitness ==
    /\ last.op = "mod_entry" /\ last.ok /\ last.keys_changed
    /\ Cardinality(Live(keys, tables)) = 2

\* the store after delete_entry(k)
DeleteRemoves(k, r) ==
    /\ r.ok <=> k \in DOMAIN keys
    /\ r.ok =>
        /\ k \notin DOMAIN r.keys
        /\ keys[k] \notin Holders(r.tables, k)
        /\ ~grab_entry(r.keys, r.tables, k).ok
        /\ r.keys = [k3 \in DOMAIN keys \ {k} |-> keys[k3]]
        /\ r.tables = [c \in DOMAIN tables |->
                          [tables[c] EXCEPT !.rows =
                              {row \in @ : c # keys[k] \/ row[1] # SqlInteger(k)}]]
    /\ ErrorKeeps(r)

\* C6: delete_entry(k) succeeds exactly when k is in the registry; after a
\* success k is absent from the registry and from its catagory table,
\* grab_entry(k) fails, and every other entry and registry row is unchanged;
\* when k is not registered the call fails and changes nothing.
DeleteEntryRemoves ==
    \A k \in KeyIds : DeleteRemoves(k, delete_entry(keys, tables, k))

\* C6 witness: a delete_entry succeeded and took a row away while another
\* entry stays live.
DeleteEntryRemovesWitness ==
    /\ last.op = "delete_entry" /\ last.ok /\ last.tables_changed
    /\ Live(keys, tables) # {}

\* a definition add_catagory has no reason to refuse but its id
WellFormed(catagory) ==
    /\ check_id_string(catagory.id)
    /\ catagory.id # KEYS
    /\ catagory.fields # <<>>
    /\ \A i \in 1..Len(catagory.fields) : check_id_string(catagory.fields[i].id)
    /\ \A i, j \in 1..Len(CreateCols(catagory.fields)) :
          i # j => CreateCols(catagory.fields)[i].id # CreateCols(catagory.fields)[j].id

\* add_catagory on an existing id: refused, nothing changed, and another id
\* is still created afterwards
ExistingRefused(r) ==
    /\ ~r.ok /\ r.err = "CatagoryExists"
    /\ ErrorKeeps(r)
    /\ \A other \in CatagoryDefs :
          WellFormed(other) /\ other.id \notin DOMAIN r.tables =>
              add_catagory(r.keys, r.tables, other).ok

\* C7: add_catagory with an id for which a table exists fails with
\* CatagoryExists and leaves the table, its columns and its rows unchanged;
\* creating a catagory with a different id afterwards still succeeds.
CreateExistingRefused ==
    \A catagory \in CatagoryDefs :
        catagory.id \in DOMAIN tables =>
            ExistingRefused(add_catagory(keys, tables, catagory))

\* C7 witness: an add_catagory was refused for its id while the one table
\* there is holds a row, and another catagory is still to be created.
CreateExistingRefusedWitness ==
    /\ last.op = "add_catagory" /\ last.err = "CatagoryExists"
    /\ DOMAIN tables = {RES} /\ tables[RES].rows # {}

\* a definition whose id, or one of whose field ids, fails check_id_string
InvalidDefinition(catagory) ==
    \/ ~check_id_string(catagory.id)
    \/ \E i \in 1..Len(catagory.fields) : ~check_id_string(catagory.fields[i].id)

\* C8: if the catagory id or any field id of a definition fails
\* check_id_string, add_catagory fails and creates no table, wherever in the
\* field list the invalid id stands.
CreateInvalidRefused ==
    \A catagory \in CatagoryDefs :
        InvalidDefinition(catagory) =>
            /\ ~add_catagory(keys, tables, catagory).ok
            /\ add_catagory(keys, tables, catagory).tables = tables

\* C8 witness: an add_catagory was refused for an identifier and the
\* catagory of the definitions with an invalid field id has no table.
CreateInvalidRefusedWitness ==
    /\ last.op = "add_catagory" /\ last.err = "InvalidIdentifier"
    /\ DOMAIN tables = {RES}

\* C9: every identifier and value an operation embeds in SQL text has passed
\* check_id_string or check_value_string before the text is prepared: an
\* add_entry whose catagory id fails check_id_string is refused as an invalid
\* identifier, and not by the engine that was handed a statement naming it.
EmbeddedTextValidated ==
    \A entry \in Entries :
        ~check_id_string(entry.catagory_id) =>
            add_entry(keys, tables, entry).err = "InvalidIdentifier"

\* k is the smallest key from start on that the registry does not hold
SmallestFree(ks, start, k) ==
    /\ k >= start
    /\ k \notin DOMAIN ks
    /\ \A j \in start..(k - 1) : j \in DOMAIN ks

\* C10: grab_next_available_key(start) returns the smallest key k >= start
\* absent from the registry, and changes neither the registry nor a table.
NextKeyIsSmallestFree ==
    [][last'.op = "grab_next_available_key" =>
        /\ UNCHANGED <<keys, tables>>
        /\ \A start \in KeyIds :
              SmallestFree(keys, start, grab_next_available_key(keys, start))]_vars

\* C10 witness: grab_next_available_key ran on a registry that holds the
\* first two keys, so that the scan from either passes over a registered key.
NextKeyIsSmallestFreeWitness ==
    /\ last.op = "grab_next_available_key"
    /\ DOMAIN keys = {0, 1}

\* the place value of a text of symbols, most significant symbol first
RECURSIVE PlaceValue(_)
PlaceValue(t) ==
    IF t = <<>> THEN 0
    ELSE 64 * PlaceValue(SubSeq(t, 1, Len(t) - 1)) + Position(t[Len(t)])

\* C13: decode(encode(n)) = n for every n, and encode(n) ends with a text
\* over the 64 symbols: from_u64 does not panic, each of its characters is a
\* symbol of TABLE, and to_u64 of it is n.
EncodeRoundTrips ==
    last.op = "from_u64" =>
        /\ ~last.out.panic
        /\ \A i \in 1..Len(last.out.s) : Position(last.out.s[i]) >= 0
        /\ \A overflow_checks \in BOOLEAN :
              to_u64_build(last.out.s, overflow_checks) =
                  [ok |-> TRUE, panic |-> FALSE, v |-> last.num]

\* C14: decode(s) is the InvalidSymbol error exactly when s, trimmed at its
\* two ends, holds a character that is no symbol; otherwise it is the place
\* value of the symbols, most significant first.
DecodeIsPlaceValue ==
    last.op = "to_u64" =>
        IF \E i \in 1..Len(Trim(last.string)) : Position(Trim(last.string)[i]) < 0
        THEN last.out = [ok |-> FALSE, panic |-> FALSE, v |-> 0]
        ELSE last.out = [ok |-> TRUE, panic |-> FALSE,
                         v |-> PlaceValue(Trim(last.string))]

\* the rule of identifiers: not empty, an uppercase letter first, and after
\* it no lowercase letter, no whitespace and none of the thirteen characters
IdentifierRule(id) ==
    /\ id # <<>>
    /\ id[1] \in Upper
    /\ \A i \in 2..Len(id) :
          /\ id[i] \notin Lower
          /\ id[i] \notin Whitespace
          /\ id[i] \notin {"+", "\\", "-", "*", "/", "%", "&", "|", "^",
                           "=", ">", "<", ";"}

\* C15: validateIdentifier(s) succeeds exactly when s is not empty, starts
\* with an uppercase letter and has no lowercase letter, whitespace or one
\* of + \ - * / % & | ^ = > < ; after it.
IdentifierAcceptedIffRule ==
    last.op = "check_id_string" => (last.ok <=> IdentifierRule(last.id))

\* C15 witness: an identifier of two characters was checked and refused for
\* its second character alone.
IdentifierAcceptedIffRuleWitness ==
    /\ last.op = "check_id_string"
    /\ last.id = <<"A", "+">>
    /\ ~last.ok

\* v without its exponent suffix: a final e followed by digits to the end
NoExponentSuffix(v) ==
    LET n == DigitRun(Reverse(v)) IN
    IF n >= 1 /\ Len(v) > n /\ v[Len(v) - n] = "e"
    THEN SubSeq(v, 1, Len(v) - n - 1)
    ELSE v

\* an optional single leading dash, then one or more digits and no more
SignedDigits(v) ==
    LET d == IF v # <<>> /\ v[1] = "-" THEN Tail(v) ELSE v IN
    /\ d # <<>>
    /\ DigitRun(d) = Len(d)

\* C16: validateValue(v, Integer) succeeds exactly when v without its
\* exponent suffix is an optional single dash and one or more digits; every
\* other text fails with InvalidInteger.
IntegerAcceptedIffRule ==
    (last.op = "check_value_string" /\ last.datatype = "INTEGER") =>
        /\ last.err \in {"", "InvalidInteger"}
        /\ last.err = "" <=> SignedDigits(NoExponentSuffix(last.value))

\* the i-th smallest key the registry does not hold, counted from 1
NthFree(ks, i) ==
    CHOOSE k \in 0..(i + Cardinality(DOMAIN ks)) :
        /\ k \notin DOMAIN ks
        /\ Cardinality({j \in 0..(k - 1) : j \notin DOMAIN ks}) = i - 1

\* the chunks with the i-th free key, encoded, between chunk i and chunk i+1
RECURSIVE Filled(_, _, _)
Filled(ks, chunks, i) ==
    IF i = Len(chunks) THEN chunks[i]
    ELSE chunks[i] \o from_u64(NthFree(ks, i)).s \o Filled(ks, chunks, i + 1)

FillTemplateReservesNothing ==
    [][/\ last'.op = "fill_svg_template" => UNCHANGED <<keys, tables>>
       /\ last'.op \notin {"add_entry", "mod_entry", "delete_entry"} =>
             \A data \in Templates :
                 fill_svg_template(keys', data) = fill_svg_template(keys, data)]_vars

\* C12 witness: fill_svg_template ran while key 0 was free and key 1 was
\* not, so that a call that reserved would change what the next one returns.
FillTemplateReservesNothingWitness ==
    /\ last.op = "fill_svg_template"
    /\ DOMAIN keys = {1}

\* number of leading characters of s that belong to a comparison
RECURSIVE OperatorRun(_)
OperatorRun(s) ==
    IF s # <<>> /\ s[1] \in {"=", "!", "<", ">"} THEN 1 + OperatorRun(Tail(s)) ELSE 0

\* a condition read as field, operator, literal
ConditionField(c) == ToUpper(SubSeq(c, 1, IdentRun(c)))

ConditionOperator(c) ==
    SubSeq(c, IdentRun(c) + 1, IdentRun(c) + OperatorRun(Drop(c, IdentRun(c))))

ConditionLiteral(c) == Drop(c, IdentRun(c) + OperatorRun(Drop(c, IdentRun(c))))

\* the row meets the condition: its field compares to the literal as the
\* operator says
Satisfies(cols, row, c) ==
    SqlHolds(ConditionOperator(c), row[ColIndex(cols, ConditionField(c))],
             CompareAffinity(Literal(ConditionLiteral(c)).val,
                             cols[ColIndex(cols, ConditionField(c))].decl))

\* r, the result of a search in c, is without conditions every row of c, and
\* when it is a list, the entries of the rows of c that meet every condition,
\* each once and each of catagory c
SearchExact(c, conditions, r) ==
    /\ conditions = <<>> => r.ok /\ Len(r.entries) = Cardinality(tables[c].rows)
    /\ r.ok =>
          /\ {r.entries[i] : i \in 1..Len(r.entries)} =
                {row_to_entry(c, tables[c].cols, row).entry :
                    row \in {q \in tables[c].rows :
                        \A i \in 1..Len(conditions) :
                            Satisfies(tables[c].cols, q, conditions[i])}}
          /\ \A i, j \in 1..Len(r.entries) :
                r.entries[i] = r.entries[j] => i = j
          /\ \A i \in 1..Len(r.entries) : r.entries[i].catagory_id = c

\* C17: searchCatagory returns exactly the entries of the catagory whose
\* rows meet every condition of the list, all rows for an empty list, no
\* entry of another catagory, and it changes no state.
SearchReturnsMatching ==
    /\ \A c \in DOMAIN tables, conditions \in SearchConditions :
          SearchExact(c, conditions, search_catagory(keys, tables, c, conditions))
    /\ last.op = "search_catagory" => ~last.keys_changed /\ ~last.tables_changed

\* C17 witness: search_catagory ran on a table of two rows, one with OHMS 39
\* and one without, so that a condition on OHMS parts them.
SearchReturnsMatchingWitness ==
    /\ last.op = "search_catagory"
    /\ last.ok
    /\ RES \in DOMAIN tables
    /\ Cardinality(tables[RES].rows) = 2
    /\ \E q \in tables[RES].rows : q[7] = SqlReal(39, 0)
    /\ \E q \in tables[RES].rows : q[7] # SqlReal(39, 0)

\* C18: searchCatagory accepts a condition with each of the six comparisons
\* =, !=, <, >, <=, >= on a field of the catagory: none is refused as an
\* invalid condition.
SearchAcceptsSixOperators ==
    \A c \in DOMAIN tables, condition \in OperatorConditions :
        search_catagory(keys, tables, c, <<condition>>).ok

\* C19: after createCatagory(def) succeeds, fieldIds(def.id) returns KEY,
\* LOCATION, QUANTITY, CREATED, MODIFIED and then the field ids of def in
\* the order of their declaration.
FieldIdsAreDefinition ==
    \A catagory \in CatagoryDefs :
        add_catagory(keys, tables, catagory).ok =>
            grab_catagory_fields(add_catagory(keys, tables, catagory).tables,
                                 catagory.id) =
                [ok |-> TRUE,
                 fields |-> <<KEY, LOCATION, QUANTITY, CREATED, MODIFIED>>
                            \o [i \in 1..Len(catagory.fields) |-> catagory.fields[i].id]]

\* the list holds every name once, in ascending order
Ascending(list) ==
    \A i, j \in 1..Len(list) : i < j => TextLess(list[i], list[j])

\* what the registry's table is to the operations on catagories: not
\* created, not listed, no entry found in it, no entry added to it
RegistryIsNoCatagory ==
    /\ \A catagory \in CatagoryDefs :
          catagory.id = KEYS => ~add_catagory(keys, tables, catagory).ok
    /\ \A i \in 1..Len(list_catagories(tables)) : list_catagories(tables)[i] # KEYS
    /\ \A conditions \in SearchConditions :
          search_catagory(keys, tables, KEYS, conditions).entries = <<>>
    /\ \A key \in KeyIds :
          ~add_entry(keys, tables, Entry(KEYS, key, <<>>)).ok

\* what a call of add_catagory does to the list: a successful one adds its
\* id, a failed one nothing
ListFollowsCreate(catagory, r) ==
    {list_catagories(r.tables)[i] : i \in 1..Len(list_catagories(r.tables))} =
        {list_catagories(tables)[i] : i \in 1..Len(list_catagories(tables))}
        \cup (IF r.ok THEN {catagory.id} ELSE {})

DeleteCatagoryOnlyEmpty(c, r) ==
    IF tables[c].rows # {}
    THEN /\ ~r.ok /\ r.err = "CatagoryNotEmpty"
         /\ r.keys = keys /\ r.tables = tables
    ELSE /\ r.ok /\ r.keys = keys
         /\ DOMAIN r.tables = DOMAIN tables \ {c}
         /\ \A i \in 1..Len(list_catagories(r.tables)) :
               list_catagories(r.tables)[i] # c

\* the catagory of the one entry left in its table can be deleted once
\* delete_entry has removed that entry
DeletableAfterLastEntry(k, d) ==
    (/\ d.ok
     /\ keys[k] \in DOMAIN tables
     /\ \A row \in tables[keys[k]].rows : row[1] = SqlInteger(k))
    => delete_empty_catagory(d.keys, d.tables, keys[k]).ok

\* C21: deleteCatagory on a catagory whose table holds a row fails with
\* CatagoryNotEmpty and changes nothing; once every entry of the catagory is
\* removed with deleteEntry it succeeds and the catagory is no longer listed.
DeleteCatagoryNeedsEmpty ==
    /\ \A c \in DOMAIN tables :
          DeleteCatagoryOnlyEmpty(c, delete_empty_catagory(keys, tables, c))
    /\ \A k \in DOMAIN keys :
          DeletableAfterLastEntry(k, delete_entry(keys, tables, k))

\* C21 witness: a catagory was deleted while the other one holds an entry.
DeleteCatagoryNeedsEmptyWitness ==
    /\ last.op = "delete_empty_catagory" /\ last.ok
    /\ DOMAIN tables = {CAP}
    /\ tables[CAP].rows # {}

\* the errors mod_entry returns after its UPDATE statement ran
AfterUpdate == {"UpdateFailed", "SwapBackFailed"}

\* C22: a mod_entry that fails before its UPDATE statement runs (key not
\* registered, a field that is no column, a value that fails validation, a
\* new KEY registered to another entry) leaves the registry and every table
\* as they were, also when the call carried a valid change of KEY.
ModEntryEarlyErrorKeeps ==
    \A k \in KeyIds, fields \in ModFields \cup EarlyFailFields, now \in 0..MaxTime :
        (/\ ~mod_entry(keys, tables, k, fields, now).ok
         /\ mod_entry(keys, tables, k, fields, now).err \notin AfterUpdate)
        => /\ mod_entry(keys, tables, k, fields, now).keys = keys
           /\ mod_entry(keys, tables, k, fields, now).tables = tables

\* C22 witness: a mod_entry was refused for a KEY that another of the two
\* entries holds.
ModEntryEarlyErrorKeepsWitness ==
    /\ last.op = "mod_entry" /\ last.err = "KeyAlreadyUsed"
    /\ Cardinality(Live(keys, tables)) = 2

\* field lists that change KEY and make the UPDATE fail: the value of
\* QUANTITY opens a comment that leaves the statement without its end
FailingKeyChange(k2) ==
    {<<Field(KEY, from_u64(k2).s), Field(QUANTITY, <<"-", "-", "1">>)>>,
     <<Field(QUANTITY, <<"-", "-", "1">>), Field(KEY, from_u64(k2).s)>>}

\* the store mod_entry returns when the UPDATE of a change from k to k2
\* failed: k, and not k2, is registered to the catagory it had, and the
\* tables are as they were
SwappedBack(k, k2, r) ==
    /\ r.err = "UpdateFailed"
    /\ k \in DOMAIN r.keys /\ r.keys[k] = keys[k]
    /\ k2 \notin DOMAIN r.keys
    /\ r.keys = keys
    /\ r.tables = tables

\* C23: in mod_entry with a change of KEY from k to k2 the registry row is
\* moved to k2 before the UPDATE runs, and when the UPDATE fails it is moved
\* back: the error is returned with k, and not k2, registered to the entry's
\* catagory and the table row still under k.
ModEntrySwapsBack ==
    \A k \in DOMAIN keys, k2 \in KeyIds \ DOMAIN keys, now \in 0..MaxTime :
        /\ swap_key(keys, k, k2).ok
        /\ DOMAIN swap_key(keys, k, k2).keys = (DOMAIN keys \ {k}) \cup {k2}
        /\ \A fields \in FailingKeyChange(k2) :
              SwappedBack(k, k2, mod_entry(keys, tables, k, fields, now))

\* C23 witness: a mod_entry came back from a failed UPDATE, in a store where
\* an entry and a free key to move it to exist.
ModEntrySwapsBackWitness ==
    /\ last.op = "mod_entry" /\ last.err = "UpdateFailed"
    /\ \E k \in Live(keys, tables) : \E k2 \in KeyIds \ DOMAIN keys :
          \A fields \in FailingKeyChange(k2) :
              mod_entry(keys, tables, k, fields, 0).err = "UpdateFailed"

\* whether the field list names the column
Names(fields, id) == \E i \in 1..Len(fields) : fields[i].id = id

\* the key of the entry after the call: the one the list's KEY decodes to
KeyAfter(fields, k) ==
    IF Names(fields, KEY)
    THEN to_u64(fields[CHOOSE i \in 1..Len(fields) : fields[i].id = KEY].value).v
    ELSE k

\* the entry before and after a successful mod_entry at the time now:
\* MODIFIED is now, CREATED is what it was, and a column the list does not
\* name is what it was
StampedOnly(fields, now, before, after) ==
    /\ after.modified = now
    /\ after.created = before.created
    /\ Names(fields, LOCATION) \/ after.location = before.location
    /\ Names(fields, QUANTITY) \/ after.quantity = before.quantity
    /\ Len(after.fields) = Len(before.fields)
    /\ \A i \in 1..Len(before.fields) :
          Names(fields, before.fields[i].id) \/ after.fields[i] = before.fields[i]

\* the store after a successful mod_entry of k: the entry is stamped, and
\* every other entry reads as before
ModEntryFrame(k, fields, now, r) ==
    r.ok =>
        /\ grab_entry(r.keys, r.tables, KeyAfter(fields, k)).ok
        /\ StampedOnly(fields, now, grab_entry(keys, tables, k).entry,
                       grab_entry(r.keys, r.tables, KeyAfter(fields, k)).entry)
        /\ \A k3 \in DOMAIN keys \ {k, KeyAfter(fields, k)} :
              grab_entry(r.keys, r.tables, k3) = grab_entry(keys, tables, k3)

\* C24: after every successful modEntry(key, fields), whatever field ids the
\* list names, the entry's MODIFIED is the time of the call and its CREATED
\* the value it had; only MODIFIED and the named columns change, and no
\* other entry changes.
ModEntryStampsOnly ==
    \A k \in Live(keys, tables), fields \in StampFields, now \in 0..MaxStamp :
        ModEntryFrame(k, fields, now, mod_entry(keys, tables, k, fields, now))

\* the row add_entry inserted for the entry: its key, and nothing in the
\* column of a field whose value is empty
EmptyLeftOut(entry, cols, row) ==
    /\ row[1] = SqlInteger(entry.key)
    /\ \A i \in 1..Len(entry.fields) :
          entry.fields[i].value = <<>> =>
              row[ColIndex(cols, entry.fields[i].id)] = SqlNull

\* add_entry accepted the entry and left its empty fields out of the row
AcceptedWithout(entry, r) ==
    /\ r.ok
    /\ \E row \in r.tables[entry.catagory_id].rows \ tables[entry.catagory_id].rows :
          EmptyLeftOut(entry, r.tables[entry.catagory_id].cols, row)

\* C25: addEntry inserts the five fixed columns and only the non-empty user
\* fields: a user field whose value is the empty string, of any declared
\* type, is left out of the row and does not make addEntry fail.
EmptyFieldsLeftOut ==
    \A entry \in EmptyValueEntries :
        (/\ entry.catagory_id \in DOMAIN tables
         /\ entry.key \notin DOMAIN keys
         /\ Holders(tables, entry.key) = {})
        => AcceptedWithout(entry, add_entry(keys, tables, entry))

\* add_catagory created a table with the fixed columns and no other
CreatedFixedOnly(id, r) ==
    /\ r.ok
    /\ id \in DOMAIN r.tables
    /\ grab_catagory_fields(r.tables, id).fields =
          <<KEY, LOCATION, QUANTITY, CREATED, MODIFIED>>

\* C27: createCatagory on a definition with a valid id that does not exist
\* yet and an empty list of user fields succeeds and creates a table with
\* exactly the five fixed columns.
CreateWithoutFields ==
    \A id \in {RES, CAP} :
        id \notin DOMAIN tables =>
            CreatedFixedOnly(id, add_catagory(keys, tables, [id |-> id, fields |-> <<>>]))

\* the store a mod_entry with no field leaves: the entry's MODIFIED is the
\* time of the call, and nothing else is changed
OnlyStamped(k, now, r) ==
    /\ r.ok
    /\ r.keys = keys
    /\ grab_entry(r.keys, r.tables, k).entry =
          [grab_entry(keys, tables, k).entry EXCEPT !.modified = now]
    /\ \A k3 \in DOMAIN keys \ {k} :
          grab_entry(r.keys, r.tables, k3) = grab_entry(keys, tables, k3)

\* C28: modEntry(key, []) with an empty field list on a registered key
\* succeeds and changes only the entry's MODIFIED timestamp.
ModEntryWithoutFields ==
    \A k \in Live(keys, tables), now \in 0..MaxStamp :
        OnlyStamped(k, now, mod_entry(keys, tables, k, <<>>, now))

\* the state an add_entry interrupted between add_key and the INSERT leaves:
\* the key registered, and no row under it in any table
RegisteredWithoutRow(entry, r) ==
    /\ entry.key \in DOMAIN r.keys
    /\ r.keys[entry.key] = entry.catagory_id
    /\ Holders(r.tables, entry.key) = {}

\* every row of every table has its key in the registry
RowsAreRegistered(ks, tbls) ==
    \A c \in DOMAIN tbls : \A row \in tbls[c].rows :
        row[1].t = "INTEGER" /\ row[1].i \in DOMAIN ks

KeyFreed(k, d) ==
    /\ d.ok
    /\ k \notin DOMAIN d.keys
    /\ grab_next_available_key(d.keys, k) = k
    /\ \A entry \in CrashEntries :
          (/\ entry.key = k
           /\ entry.catagory_id \in DOMAIN d.tables
           /\ entry.fields[1].value # <<"-", "-", "1">>)
          => add_entry(d.keys, d.tables, entry).ok

\* C29: deleteEntry(k) on an orphaned key (registered, and no table has a
\* row with key k) succeeds and removes the registry row, so that k is free
\* again for nextAvailableKey and addEntry.
OrphanKeyCanBeFreed ==
    \A k \in DOMAIN keys :
        Holders(tables, k) = {} => KeyFreed(k, delete_entry(keys, tables, k))

\* the types grab_catagory_types reports
Reported == {"INTEGER", "REAL", "TEXT"}

\* the field is a column of the table add_catagory made, reported as text
\* when it is declared NULL or BLOB, and its values are quoted and checked
\* as text
ReportedAsText(tbls, id, field) ==
    field.datatype \in {"NULL", "BLOB"} =>
        /\ field_type(tbls, id, field.id) = [err |-> "", datatype |-> "TEXT"]
        /\ \A fields \in TypeFields : \A i \in 1..Len(fields) :
              fields[i].id = field.id =>
                  format_string_to_field(tbls, id, field.id, fields[i].value) =
                      [err |-> check_value_string(
                                  <<"'">> \o fields[i].value \o <<"'">>, "TEXT"),
                       out |-> <<"'">> \o fields[i].value \o <<"'">>]

\* C30: fieldTypes reports only Integer, Real or Text for every column of
\* every catagory table; a field declared Null or Blob in createCatagory is
\* reported as Text, so that addEntry and modEntry quote and validate its
\* value as text and never fail with UnsupportedType.
TypesAreIntegerRealText ==
    /\ \A c \in DOMAIN tables : \A i \in 1..Len(grab_catagory_types(tables, c)) :
          grab_catagory_types(tables, c)[i] \in Reported
    /\ \A catagory \in TypeDefs :
          add_catagory(keys, tables, catagory).ok =>
              \A i \in 1..Len(catagory.fields) :
                  ReportedAsText(add_catagory(keys, tables, catagory).tables,
                                 catagory.id, catagory.fields[i])
    /\ \A entry \in TypeEntries :
          add_entry(keys, tables, entry).err # "UnsupportedType"
    /\ \A key \in KeyIds, fields \in TypeFields :
          mod_entry(keys, tables, key, fields, 0).err # "UnsupportedType"

\* C30 witness: an entry was added to the catagory with a field of every
\* type, its Null and Blob fields holding text.
TypesAreIntegerRealTextWitness ==
    /\ last.op = "add_entry" /\ last.ok
    /\ TYP \in DOMAIN tables
    /\ \E row \in tables[TYP].rows : row[6].t = "TEXT" /\ row[7].t = "TEXT"

====
